---- MODULE Spec2Model ----
(***************************************************************************)
(* Model of the object kernel of boa: GcObject (a garbage collected cell   *)
(* holding an Object, with run-time checked borrows, identity and handles) *)
(* and GcObject::call, the invocation of built-in and ordinary functions   *)
(* (boa/src/builtins/object/gcobject.rs); the evaluation of `new`          *)
(* (boa/src/exec/new/mod.rs); the property namespaces of an Object and the *)
(* iterators over them (boa/src/builtins/object/iter.rs).                  *)
(***************************************************************************)
EXTENDS Integers, Sequences, FiniteSets, TLC

VARIABLES
    objects,    \* the heap: object handle -> Object record
    flags,      \* per cell: the GcCell borrow flag
    guards,     \* per cell: the live guards that host code holds
    bres,       \* outcome of the latest borrow operation of the host code
    envs,       \* live environment records, by identity
    envStack,   \* ctx.realm.environment: the stack of active environments
    stack,      \* the host call stack: one frame per running GcObject::call
    ret,        \* what the call that has just ended handed to its caller
    aborted,    \* a panic has unwound the execution
    node,       \* the evaluation of a `new` expression (New::run)
    iter,       \* the live property iterator, or None
    inserted,   \* per namespace of the iterated object: keys as inserted
    handles,    \* the GcObject handles host code holds: handle -> allocation
    eqres,      \* outcome of the latest GcObject::equals
    symbol_count, \* the state of the generator behind generate_hash
    symbols,    \* the symbols created so far, in the order of their creation
    inits,      \* how many times Symbol::init has run
    sres,       \* outcome of the latest Symbol::call or Symbol::to_string
    source,     \* the characters the lexer is given, the first one consumed
    strict_mode, \* whether the lexer is in strict mode
    lexed,      \* outcome of NumberLiteral::lex on source, or None
    views       \* the twelve property views host code runs side by side

vars == <<objects, flags, guards, bres, envs, envStack, stack, ret, aborted,
          node, iter, inserted, handles, eqres,
          symbol_count, symbols, inits, sres, source, strict_mode, lexed,
          views>>

\* the cells and their borrow state
heapVars == <<objects, flags, guards, bres>>

\* the state of the calls
callVars == <<envs, envStack, stack, ret, aborted>>

\* the state of the evaluation of `new`, of the property iterator and of the
\* handles
newVars == <<node>>
iterVars == <<iter, inserted>>
handleVars == <<handles, eqres>>

\* the state of the Symbol built-in and of the number lexer
symbolVars == <<symbol_count, symbols, inits, sres>>
lexVars == <<source, strict_mode, lexed>>
viewVars == <<views>>
otherVars == <<symbolVars, lexVars, viewVars>>

----------------------------------------------------------------------------
(* Bounds of the model.                                                    *)

\* longest actual-argument list of a call
MaxArgs == 3
\* deepest nesting of running calls
MaxDepth == 2
\* most guards host code holds on one cell at a time
MaxGuards == 2
\* largest indexed property key
MaxIndex == 2
\* most calls of Symbol()
MaxSymbolCalls == 3
\* most runs of Symbol::init
MaxInits == 1
\* most handles host code holds at a time
MaxHandles == 3

----------------------------------------------------------------------------
(* Values.                                                                 *)

None == [t |-> "none"]

Undefined == [t |-> "undefined"]

Num(n) == [t |-> "number", n |-> n]

ObjectValue(o) == [t |-> "object", o |-> o]

\* an array object holding the given elements
ArrayValue(elems) == [t |-> "array", elems |-> elems]

\* ctx.throw_type_error(msg): Err carrying a TypeError with this message
TypeError(msg) == [kind |-> "Err", value |-> [t |-> "TypeError", msg |-> msg]]

Ok(v) == [kind |-> "Ok", value |-> v]

Err(v) == [kind |-> "Err", value |-> v]

\* the actual-argument lists the calls are made with
ArgLists == {[i \in 1..n |-> Num(i)] : n \in 0..MaxArgs}

\* the receiver and argument list of a call: the receiver alternates with the
\* number of arguments
Inputs ==
    {[this |-> IF Len(a) % 2 = 0 THEN Undefined ELSE ObjectValue("plain"),
      args |-> a] : a \in ArgLists}

\* what the body of a function may hand back
BodyResults == {Ok(Undefined), Ok(Num(1)), Err(Num(2))}

----------------------------------------------------------------------------
(* Objects and functions.                                                  *)

Param(name, rest) == [name |-> name, rest |-> rest]

\* Function: body kind, formal parameters, this mode, captured environment,
\* callable flag
Function(body, params, thisMode, env, callable) ==
    [body |-> body, params |-> params, this_mode |-> thisMode,
     environment |-> env, callable |-> callable]

\* identity of the global environment
GlobalEnv == 0

\* identity of an environment some closures were declared in
ClosureEnv == 1

\* no environment
NoEnv == 0 - 1

Null == [t |-> "null"]

\* a property map: its entries, in the order the container iterates them
Entry(key, value) == [key |-> key, value |-> value]

\* the name of the property a constructor keeps its prototype object in
PROTOTYPE == "prototype"

\* Object: the function data, the primitive the object wraps (ObjectData),
\* the prototype link and the three property namespaces
Object(function, properties) ==
    [function |-> function, data |-> None, prototype |-> Null,
     indexed_properties |-> <<>>, properties |-> properties,
     symbol_properties |-> <<>>]

Objs == {"plain", "inert", "native", "f2", "frest", "arrow"}

\* the cells that host code borrows by hand
HostCells == {"plain", "f2"}

\* the cells that host code borrows mutably around calls
MutCells == {"f2"}

\* the objects of the heap; "frest" declares a parameter after its rest
\* parameter, which the loop of call must leave unbound; the "prototype"
\* property of the functions is an object, a number, undefined or absent
InitObjects ==
    [o \in Objs |->
        CASE o = "plain"  -> Object(None, <<>>)
          [] o = "inert"  -> Object(
                Function("Ordinary", <<Param("a", FALSE)>>, "NonLexical",
                         GlobalEnv, FALSE),
                <<>>)
          [] o = "native" -> Object(
                Function("BuiltIn", <<>>, "NonLexical", GlobalEnv, TRUE),
                <<Entry(PROTOTYPE, Num(1))>>)
          [] o = "f2"     -> Object(
                Function("Ordinary", <<Param("a", FALSE), Param("b", FALSE)>>,
                         "NonLexical", ClosureEnv, TRUE),
                <<Entry(PROTOTYPE, ObjectValue("plain"))>>)
          [] o = "frest"  -> Object(
                Function("Ordinary",
                         <<Param("a", FALSE), Param("r", TRUE), Param("c", FALSE)>>,
                         "NonLexical", GlobalEnv, TRUE),
                <<>>)
          [] o = "arrow"  -> Object(
                Function("Ordinary", <<>>, "Lexical", ClosureEnv, TRUE),
                <<Entry(PROTOTYPE, Undefined)>>)]

\* Object::as_function
as_function(object) == object.function

\* Function::is_callable
is_callable(function) == function.callable

----------------------------------------------------------------------------
(* Environments (the collaborator GcObject::call builds its scope with).   *)

NoBindings == [n \in {} |-> None]

\* new_function_environment(F, this, outer, binding_status)
new_function_environment(f, this, outer, status) ==
    [function |-> f, this_value |-> this, outer |-> outer,
     status |-> status, bindings |-> NoBindings]

\* create_mutable_binding(name, deletion)
create_mutable_binding(env, name) ==
    [env EXCEPT !.bindings =
        [n \in DOMAIN env.bindings \cup {name} |->
            IF n = name
            THEN [value |-> None, mutable |-> TRUE, initialized |-> FALSE]
            ELSE env.bindings[n]]]

\* initialize_binding(name, value)
initialize_binding(env, name, value) ==
    [env EXCEPT !.bindings[name] =
        [value |-> value, mutable |-> @.mutable, initialized |-> TRUE]]

\* set_mutable_binding(name, value): an assignment made by the running body
set_mutable_binding(env, name, value) ==
    [env EXCEPT !.bindings[name].value = value]

\* Function::add_arguments_to_environment(param, value, local_env)
add_arguments_to_environment(param, value, env) ==
    initialize_binding(create_mutable_binding(env, param.name), param.name, value)

\* args.get(index..).unwrap_or_default(), index counted from 0
ArgsFrom(args, index) ==
    IF index < Len(args) THEN SubSeq(args, index + 1, Len(args)) ELSE <<>>

\* Function::add_rest_param(param, index, args, ctx, local_env)
add_rest_param(param, index, args, env) ==
    initialize_binding(create_mutable_binding(env, param.name), param.name,
                       ArrayValue(ArgsFrom(args, index)))

\* create_unmapped_arguments_object(args): the slots copy the arguments and
\* no slot is mapped to a parameter
create_unmapped_arguments_object(args) ==
    [t |-> "arguments", elems |-> args, map |-> <<>>]

\* reading slot i (from 1) of an arguments object within environment env: a
\* mapped slot reads the parameter it is mapped to
ArgumentsSlot(env, obj, i) ==
    IF i \in DOMAIN obj.map
    THEN env.bindings[obj.map[i]].value
    ELSE obj.elems[i]

\* LexicalEnvironment::push
push(st, e) == Append(st, e)

\* LexicalEnvironment::pop
pop(st) == IF Len(st) = 0 THEN st ELSE SubSeq(st, 1, Len(st) - 1)

\* identity of a newly allocated environment record
FreshEnv(live) == CHOOSE e \in 2..(Cardinality(live) + 2) : e \notin live

----------------------------------------------------------------------------
(* GcObject::call, the part that prepares the environment of an ordinary   *)
(* function.                                                               *)

\* the receiver handed on whatever the this mode
ThisArgAnyMode(function, this) == this

\* the this argument handed to new_function_environment
ThisArg(function, this) ==
    IF function.this_mode = "Lexical" THEN None ELSE this

\* the binding status handed to new_function_environment
StatusArg(function) ==
    IF function.this_mode = "Lexical" THEN "Lexical" ELSE "Uninitialized"

\* an environment whose parent is the environment of the caller
LocalEnvOfCaller(self, function, this) ==
    new_function_environment(self, ThisArg(function, this),
                             envStack[Len(envStack)], StatusArg(function))

\* let local_env = new_function_environment(..)
LocalEnv(self, function, this) ==
    new_function_environment(self, ThisArg(function, this),
                             function.environment, StatusArg(function))

\* the argument one position further on
ArgOrUndefinedOffByOne(args, i) ==
    IF i + 1 < Len(args) THEN args[i + 2] ELSE Undefined

\* args.get(i).cloned().unwrap_or_else(Value::undefined), i counted from 0
ArgOrUndefined(args, i) ==
    IF i < Len(args) THEN args[i + 1] ELSE Undefined

\* the loop without the break after the rest parameter
RECURSIVE BindParamsNoBreak(_, _, _, _)
BindParamsNoBreak(params, args, env, i) ==
    IF i >= Len(params) THEN env
    ELSE BindParamsNoBreak(params, args,
            IF params[i + 1].rest
            THEN add_rest_param(params[i + 1], i, args, env)
            ELSE add_arguments_to_environment(params[i + 1],
                                              ArgOrUndefined(args, i), env),
            i + 1)

\* the loop over function.params, from the parameter at position i (from 0)
RECURSIVE BindParamsFrom(_, _, _, _)
BindParamsFrom(params, args, env, i) ==
    IF i >= Len(params) THEN env
    ELSE IF params[i + 1].rest
         THEN add_rest_param(params[i + 1], i, args, env)
         ELSE BindParamsFrom(params, args,
                add_arguments_to_environment(params[i + 1],
                                             ArgOrUndefined(args, i), env),
                i + 1)

\* "Add argument bindings to the function environment"
BindParams(function, args, env) ==
    BindParamsFrom(function.params, args, env, 0)

\* the arguments binding created and never initialized
AddArgumentsObjectUninitialized(args, env) ==
    create_mutable_binding(env, "arguments")

\* "Add arguments object"
AddArgumentsObject(args, env) ==
    initialize_binding(create_mutable_binding(env, "arguments"), "arguments",
                       create_unmapped_arguments_object(args))

\* the environment of an ordinary call as it is when the body starts
PreparedEnv(self, function, this, args) ==
    AddArgumentsObject(args, BindParams(function, args, LocalEnv(self, function, this)))

----------------------------------------------------------------------------
(* The borrow flag of a cell and the two tiers of borrow operations.       *)

Unused == [readers |-> 0, writing |-> FALSE]

\* try_borrow that does not look at the writing flag
try_borrow_unchecked(flag) ==
    [result |-> "Ok", flag |-> [flag EXCEPT !.readers = @ + 1]]

\* GcCell::try_borrow: refused while the cell is mutably borrowed
try_borrow(flag) ==
    IF flag.writing
    THEN [result |-> "BorrowError", flag |-> flag]
    ELSE [result |-> "Ok", flag |-> [flag EXCEPT !.readers = @ + 1]]

\* a mutable borrow refused only while the cell is mutably borrowed
try_borrow_mut_over_readers(flag) ==
    IF flag.writing
    THEN [result |-> "BorrowMutError", flag |-> flag]
    ELSE [result |-> "Ok", flag |-> [flag EXCEPT !.writing = TRUE]]

\* GcCell::try_borrow_mut: refused while the cell is borrowed in any way
try_borrow_mut(flag) ==
    IF flag.writing \/ flag.readers > 0
    THEN [result |-> "BorrowMutError", flag |-> flag]
    ELSE [result |-> "Ok", flag |-> [flag EXCEPT !.writing = TRUE]]

\* Result::expect: the value, or a panic
expect(r) == IF r.result = "Ok" THEN r ELSE [r EXCEPT !.result = "panic"]

\* a shared borrow that leaves no trace in the flag
borrow_untracked(flag) == [result |-> "Ok", flag |-> flag]

\* GcObject::borrow
borrow(flag) == expect(try_borrow(flag))

\* borrow_mut written over try_borrow
borrow_mut_over_try_borrow(flag) ==
    [expect(try_borrow(flag)) EXCEPT !.flag = [flag EXCEPT !.writing = TRUE]]

\* GcObject::borrow_mut
borrow_mut(flag) == expect(try_borrow_mut(flag))

\* a GcCellRef whose drop leaves the flag as it is
drop_ref_kept(flag) == flag

\* dropping a GcCellRef
drop_ref(flag) == [flag EXCEPT !.readers = @ - 1]

\* dropping a GcCellRefMut
drop_mut(flag) == [flag EXCEPT !.writing = FALSE]

NoGuards == [refs |-> 0, muts |-> 0]

\* the guard a successful borrow operation hands to the host code
Held(g, op, result) ==
    IF result # "Ok" THEN g
    ELSE IF op \in {"try_borrow", "borrow"}
         THEN [g EXCEPT !.refs = @ + 1]
         ELSE [g EXCEPT !.muts = @ + 1]

BorrowOps == {"try_borrow", "try_borrow_mut", "borrow", "borrow_mut"}

\* what operation op does to a cell whose flag is flag
BorrowOutcome(op, flag) ==
    CASE op = "try_borrow"     -> try_borrow(flag)
      [] op = "try_borrow_mut" -> try_borrow_mut(flag)
      [] op = "borrow"         -> borrow(flag)
      [] op = "borrow_mut"     -> borrow_mut(flag)

\* host code runs one of the four borrow operations on cell o
HostBorrow(o, op) ==
    /\ ~aborted
    /\ LET r == BorrowOutcome(op, flags[o]) IN
        /\ r.result = "Ok" => guards[o].refs + guards[o].muts < MaxGuards
        /\ flags' = [flags EXCEPT ![o] = r.flag]
        /\ guards' = [guards EXCEPT ![o] = Held(@, op, r.result)]
        /\ bres' = [op |-> op, obj |-> o, result |-> r.result,
                    flag |-> flags[o], held |-> guards[o]]
        /\ aborted' = (r.result = "panic")
    /\ ret' = None
    /\ UNCHANGED <<objects, envs, envStack, stack>>
    /\ UNCHANGED <<newVars, iterVars, handleVars>>
    /\ sres' = None
    /\ UNCHANGED <<symbol_count, symbols, inits, lexVars, viewVars>>

\* host code drops a shared guard it holds on cell o
HostDropRef(o) ==
    /\ ~aborted
    /\ guards[o].refs > 0
    /\ flags' = [flags EXCEPT ![o] = drop_ref(@)]
    /\ guards' = [guards EXCEPT ![o].refs = @ - 1]
    /\ bres' = None
    /\ ret' = None
    /\ UNCHANGED <<objects, envs, envStack, stack, aborted>>
    /\ UNCHANGED <<newVars, iterVars, handleVars>>
    /\ sres' = None
    /\ UNCHANGED <<symbol_count, symbols, inits, lexVars, viewVars>>

\* host code drops the mutable guard it holds on cell o
HostDropMut(o) ==
    /\ ~aborted
    /\ guards[o].muts > 0
    /\ flags' = [flags EXCEPT ![o] = drop_mut(@)]
    /\ guards' = [guards EXCEPT ![o].muts = @ - 1]
    /\ bres' = None
    /\ ret' = None
    /\ UNCHANGED <<objects, envs, envStack, stack, aborted>>
    /\ UNCHANGED <<newVars, iterVars, handleVars>>
    /\ sres' = None
    /\ UNCHANGED <<symbol_count, symbols, inits, lexVars, viewVars>>

----------------------------------------------------------------------------
(* GcObject::call.                                                         *)

\* the dispatch without the test of the callable flag
CallPathAnyFunction(object) ==
    IF as_function(object) # None
    THEN as_function(object).body
    ELSE "not a function"

\* which arm of call an object takes once it is borrowed
CallPath(object) ==
    IF as_function(object) # None
    THEN IF is_callable(as_function(object))
         THEN as_function(object).body
         ELSE "not callable"
    ELSE "not a function"

\* the failure of the two arms that run no function
Refusal(path) ==
    IF path = "not callable"
    THEN TypeError("function object is not callable")
    ELSE TypeError("not a function")

\* the host function called without the receiver
HostArgsNoReceiver(this, args) == [this |-> Undefined, args |-> args]

\* what the BuiltIn arm hands to the host function
HostArgs(this, args) == [this |-> this, args |-> args]

\* ctx.realm.environment.push(local_env)
EnterStack(st, e) == push(st, e)

\* the pop skipped when the body throws (body.run(ctx)? before the pop)
OrdinaryExitUnlessThrown(st, bodyResult) ==
    [envStack |-> IF bodyResult.kind = "Err" THEN st ELSE pop(st),
     result |-> bodyResult]

\* the call answering undefined where its body threw
OrdinaryExitThrowSwallowed(st, bodyResult) ==
    [envStack |-> pop(st),
     result |-> IF bodyResult.kind = "Err" THEN Ok(Undefined) ELSE bodyResult]

\* let result = body.run(ctx); ctx.realm.environment.pop(); result
OrdinaryExit(st, bodyResult) == [envStack |-> pop(st), result |-> bodyResult]

\* the value of the BuiltIn arm: what the host function returned
BuiltInExit(hostResult) == hostResult

\* a running call: what it was given, the environment it made and started
\* its body with (ordinary), the invocations of the host function it made
\* (built-in), and the environments as they were when it was made
Frame(o, path, this, args, env, entryEnv, host) ==
    [callee |-> o, path |-> path, this |-> this, args |-> args, env |-> env,
     entryEnv |-> entryEnv, host |-> host,
     entryStack |-> envStack, entryEnvs |-> envs, entryFlag |-> flags[o]]

\* a call that has ended: what its body or host function produced, what the
\* call returned, and the environments and the borrow flag of the callee as
\* they were when it was made
Returned(o, path, produced, result, entryStack, entryEnvs, entryFlag) ==
    [callee |-> o, path |-> path, produced |-> produced, result |-> result,
     entryStack |-> entryStack, entryEnvs |-> entryEnvs,
     entryFlag |-> entryFlag]

Top == stack[Len(stack)]

Running == ~aborted /\ Len(stack) > 0

\* call on a cell that is mutably borrowed: self.borrow() panics
CallAbort(o) ==
    /\ ~aborted
    /\ borrow(flags[o]).result = "panic"
    /\ aborted' = TRUE
    /\ ret' = None
    /\ bres' = None
    /\ UNCHANGED <<objects, flags, guards, envs, envStack, stack>>
    /\ UNCHANGED <<newVars, iterVars, handleVars>>
    /\ UNCHANGED otherVars

\* call on an object that is no function, or is one that is not callable
CallRefused(o) ==
    /\ ~aborted
    /\ borrow(flags[o]).result = "Ok"
    /\ CallPath(objects[o]) \in {"not a function", "not callable"}
    /\ flags' = [flags EXCEPT ![o] = drop_ref(borrow(@).flag)]
    /\ ret' = Returned(o, CallPath(objects[o]), None,
                       Refusal(CallPath(objects[o])), envStack, envs,
                       flags[o])
    /\ bres' = None
    /\ UNCHANGED <<objects, guards, envs, envStack, stack, aborted>>
    /\ UNCHANGED <<newVars, iterVars, handleVars>>
    /\ UNCHANGED otherVars

\* call on a built-in function: the host function starts
CallBuiltIn(o, this, args) ==
    /\ ~aborted
    /\ Len(stack) < MaxDepth
    /\ borrow(flags[o]).result = "Ok"
    /\ CallPath(objects[o]) = "BuiltIn"
    /\ flags' = [flags EXCEPT ![o] = borrow(@).flag]
    /\ stack' = Append(stack, Frame(o, "BuiltIn", this, args, NoEnv, None,
                                    <<HostArgs(this, args)>>))
    /\ ret' = None
    /\ bres' = None
    /\ UNCHANGED <<objects, guards, envs, envStack, aborted>>
    /\ UNCHANGED <<newVars, iterVars, handleVars>>
    /\ UNCHANGED otherVars

\* call on an ordinary function, up to the start of its body
CallOrdinary(o, this, args) ==
    /\ ~aborted
    /\ Len(stack) < MaxDepth
    /\ borrow(flags[o]).result = "Ok"
    /\ CallPath(objects[o]) = "Ordinary"
    /\ LET e == FreshEnv(DOMAIN envs)
           local_env == PreparedEnv(ObjectValue(o), as_function(objects[o]),
                                    this, args)
       IN
        /\ envs' = [x \in DOMAIN envs \cup {e} |->
                        IF x = e THEN local_env ELSE envs[x]]
        /\ envStack' = EnterStack(envStack, e)
        /\ stack' = Append(stack, Frame(o, "Ordinary", this, args, e,
                                        local_env, <<>>))
    /\ flags' = [flags EXCEPT ![o] = borrow(@).flag]
    /\ ret' = None
    /\ bres' = None
    /\ UNCHANGED <<objects, guards, aborted>>
    /\ UNCHANGED <<newVars, iterVars, handleVars>>
    /\ UNCHANGED otherVars

\* the host function of the running built-in call returns r
ReturnBuiltIn(r) ==
    /\ Running
    /\ Top.path = "BuiltIn"
    /\ ret' = Returned(Top.callee, "BuiltIn", r, BuiltInExit(r),
                       Top.entryStack, Top.entryEnvs, Top.entryFlag)
    /\ flags' = [flags EXCEPT ![Top.callee] = drop_ref(@)]
    /\ stack' = SubSeq(stack, 1, Len(stack) - 1)
    /\ bres' = None
    /\ UNCHANGED <<objects, guards, envs, envStack, aborted>>
    /\ UNCHANGED <<newVars, iterVars, handleVars>>
    /\ UNCHANGED otherVars

\* the body of the running ordinary call ends with r
ReturnOrdinary(r) ==
    /\ Running
    /\ Top.path = "Ordinary"
    /\ envStack' = OrdinaryExit(envStack, r).envStack
    /\ envs' = [x \in DOMAIN envs \ {Top.env} |-> envs[x]]
    /\ ret' = Returned(Top.callee, "Ordinary", r, OrdinaryExit(envStack, r).result,
                       Top.entryStack, Top.entryEnvs, Top.entryFlag)
    /\ flags' = [flags EXCEPT ![Top.callee] = drop_ref(@)]
    /\ stack' = SubSeq(stack, 1, Len(stack) - 1)
    /\ bres' = None
    /\ UNCHANGED <<objects, guards, aborted>>
    /\ UNCHANGED <<newVars, iterVars, handleVars>>
    /\ UNCHANGED otherVars

\* the body of the running call, host function or interpreted body, tries to
\* borrow its own function object mutably
BodyTryBorrowMut ==
    /\ Running
    /\ LET o == Top.callee
           r == try_borrow_mut(flags[o])
       IN
        /\ flags' = [flags EXCEPT ![o] = r.flag]
        /\ bres' = [op |-> "try_borrow_mut", obj |-> o, result |-> r.result,
                    flag |-> flags[o], held |-> guards[o],
                    depth |-> Len(stack)]
    /\ ret' = None
    /\ UNCHANGED <<objects, guards, envs, envStack, stack, aborted>>
    /\ UNCHANGED <<newVars, iterVars, handleVars>>
    /\ UNCHANGED otherVars

\* the value an assignment in a body stores
Assigned == Num(0)

\* the body of the running ordinary call assigns to its first parameter
Rebind ==
    /\ Running
    /\ Top.path = "Ordinary"
    /\ Len(as_function(objects[Top.callee]).params) > 0
    /\ LET name == as_function(objects[Top.callee]).params[1].name IN
        /\ envs[Top.env].bindings[name].value # Assigned
        /\ envs' = [envs EXCEPT ![Top.env] = set_mutable_binding(@, name, Assigned)]
    /\ ret' = None
    /\ bres' = None
    /\ UNCHANGED <<objects, flags, guards, envStack, stack, aborted>>
    /\ UNCHANGED <<newVars, iterVars, handleVars>>
    /\ UNCHANGED otherVars

----------------------------------------------------------------------------
(* Specifications.                                                         *)

\* no `new` expression is being evaluated
IdleNode ==
    [pc |-> "idle", nargs |-> 0, func_object |-> None, v_args |-> <<>>,
     log |-> <<>>, outcomes |-> <<>>, this |-> None, allocated |-> None,
     constructs |-> <<>>, returned |-> None, result |-> None]

\* nothing has been inserted into the iterated object
NothingInserted == [properties |-> <<>>, symbol_properties |-> <<>>]

\* host code starts with one handle, on the allocation "plain"
InitHandles == <<"plain">>

InitEnvs ==
    [e \in {GlobalEnv, ClosureEnv} |->
        [function |-> Undefined, this_value |-> Undefined,
         outer |-> IF e = GlobalEnv THEN NoEnv ELSE GlobalEnv,
         status |-> "Initialized", bindings |-> NoBindings]]

\* the state of the engine after construction
InitEngine ==
    /\ objects = InitObjects
    /\ flags = [o \in Objs |-> Unused]
    /\ guards = [o \in Objs |-> NoGuards]
    /\ bres = None
    /\ envs = InitEnvs
    /\ envStack = <<GlobalEnv>>
    /\ stack = <<>>
    /\ ret = None
    /\ aborted = FALSE
    /\ node = IdleNode
    /\ iter = None
    /\ inserted = NothingInserted
    /\ handles = InitHandles
    /\ eqres = None
    /\ symbol_count = 0
    /\ symbols = <<>>
    /\ inits = 0
    /\ sres = None
    /\ views = None

\* the engine after construction, its lexer given nothing to lex
Init ==
    /\ InitEngine
    /\ source = <<>>
    /\ strict_mode = FALSE
    /\ lexed = None

\* the calls and returns of the evaluator, the host functions and the bodies,
\* and host code borrowing a cell mutably around them
Next ==
    \/ \E o \in Objs : CallAbort(o)
    \/ \E o \in Objs : CallRefused(o)
    \/ \E o \in Objs, in \in Inputs : CallBuiltIn(o, in.this, in.args)
    \/ \E o \in Objs, in \in Inputs : CallOrdinary(o, in.this, in.args)
    \/ \E r \in BodyResults : ReturnBuiltIn(r)
    \/ \E r \in BodyResults : ReturnOrdinary(r)
    \/ Rebind
    \/ BodyTryBorrowMut
    \/ \E o \in MutCells : HostBorrow(o, "try_borrow_mut")
    \/ \E o \in MutCells : HostDropMut(o)

Spec == Init /\ [][Next]_vars

\* the borrow operations of host code on the cells
NextBorrow ==
    \/ \E o \in HostCells, op \in BorrowOps : HostBorrow(o, op)
    \/ \E o \in HostCells : HostDropRef(o)
    \/ \E o \in HostCells : HostDropMut(o)

SpecBorrow == Init /\ [][NextBorrow]_vars

----------------------------------------------------------------------------
(* Properties.                                                             *)

\* the running calls of ordinary functions, by position on the host stack
OrdinaryFrames == {i \in 1..Len(stack) : stack[i].path = "Ordinary"}

\* the running calls of built-in functions
BuiltInFrames == {i \in 1..Len(stack) : stack[i].path = "BuiltIn"}

ParamsOf(i) == as_function(objects[stack[i].callee]).params

\* positions (from 1) of the rest parameters among params
RestAt(params) == {k \in 1..Len(params) : params[k].rest}

\* the first rest parameter's position, or one past the end when there is none
FirstRest(params) ==
    IF RestAt(params) = {} THEN Len(params) + 1
    ELSE CHOOSE k \in RestAt(params) : \A j \in RestAt(params) : k <= j

\* the binding a call makes: mutable, initialized, holding v
Bound(v) == [value |-> v, mutable |-> TRUE, initialized |-> TRUE]

\* C1: when a call of an ordinary function has returned, with a value or with
\* a thrown value, at any nesting depth, the environment stack is the one the
\* call was made on (the body itself leaving the stack balanced).
C1_EnvStackRestored ==
    (ret # None /\ ret.path = "Ordinary") => envStack = ret.entryStack

\* a recursive ordinary call has just returned a thrown value to its caller
C1_Witness ==
    /\ ret # None /\ ret.path = "Ordinary" /\ ret.result.kind = "Err"
    /\ Len(stack) > 0 /\ Top.callee = ret.callee
    /\ Len(envStack) = 2

\* C2: host code never holds more than one mutable guard on a cell, nor a
\* mutable guard together with a shared one; a shared borrow succeeds exactly
\* when no mutable guard is held on the cell, a mutable borrow exactly when no
\* guard at all is held on it.
C2_BorrowExclusion ==
    /\ \A o \in Objs :
        /\ guards[o].muts <= 1
        /\ guards[o].muts = 1 => guards[o].refs = 0
    /\ bres # None =>
        IF bres.op \in {"try_borrow", "borrow"}
        THEN (bres.result = "Ok") <=> (bres.held.muts = 0)
        ELSE (bres.result = "Ok") <=> (bres.held.muts = 0 /\ bres.held.refs = 0)

\* with a mutable guard held on the cell, a further shared borrow has failed
C2_Witness ==
    /\ bres # None /\ bres.op = "try_borrow" /\ bres.result = "BorrowError"
    /\ guards[bres.obj].muts = 1

\* C3: a fallible borrow operation that meets a conflict returns its typed
\* error (try_borrow BorrowError, try_borrow_mut BorrowMutError), aborts
\* nothing and leaves the cell's flag and the guards held on it as they were;
\* a cell on which no guard is held can be borrowed mutably again; borrow and
\* borrow_mut abort exactly where try_borrow and try_borrow_mut return an
\* error, and succeed elsewhere.
C3_FallibleTier ==
    /\ bres # None /\ bres.op = "try_borrow" =>
        /\ bres.result \in {"Ok", "BorrowError"}
        /\ bres.result = "BorrowError" <=> bres.held.muts > 0
        /\ ~aborted
    /\ bres # None /\ bres.op = "try_borrow_mut" =>
        /\ bres.result \in {"Ok", "BorrowMutError"}
        /\ bres.result = "BorrowMutError" <=> bres.held.muts + bres.held.refs > 0
        /\ ~aborted
    /\ bres # None /\ bres.result \in {"BorrowError", "BorrowMutError"} =>
        /\ flags[bres.obj] = bres.flag
        /\ guards[bres.obj] = bres.held
    /\ \A o \in HostCells :
        guards[o] = NoGuards => try_borrow_mut(flags[o]).result = "Ok"
    /\ bres # None /\ bres.op = "borrow" =>
        /\ bres.result \in {"Ok", "panic"}
        /\ bres.result = "panic" <=> try_borrow(bres.flag).result # "Ok"
        /\ bres.result = "panic" <=> bres.held.muts > 0
        /\ aborted <=> bres.result = "panic"
    /\ bres # None /\ bres.op = "borrow_mut" =>
        /\ bres.result \in {"Ok", "panic"}
        /\ bres.result = "panic" <=> try_borrow_mut(bres.flag).result # "Ok"
        /\ bres.result = "panic" <=> bres.held.muts + bres.held.refs > 0
        /\ aborted <=> bres.result = "panic"

\* try_borrow_mut has returned BorrowMutError on a cell with two shared guards
C3_Witness ==
    /\ bres # None /\ bres.op = "try_borrow_mut"
    /\ bres.result = "BorrowMutError"
    /\ guards[bres.obj].refs = 2 /\ flags[bres.obj].readers = 2

\* C4: a call that has returned from an object without a function has
\* returned Err with the TypeError "not a function", one from a function whose
\* callable flag is false Err with the TypeError "function object is not
\* callable"; either has left the environment stack, the environment records
\* (no environment made, no arguments object bound) and the host stack as
\* they were, and has aborted nothing.
C4_RefusedCalls ==
    ret # None =>
        /\ as_function(objects[ret.callee]) = None =>
            /\ ret.result = [kind |-> "Err",
                             value |-> [t |-> "TypeError", msg |-> "not a function"]]
            /\ envStack = ret.entryStack /\ envs = ret.entryEnvs /\ ~aborted
        /\ (as_function(objects[ret.callee]) # None
                /\ ~as_function(objects[ret.callee]).callable) =>
            /\ ret.result = [kind |-> "Err",
                             value |-> [t |-> "TypeError",
                                        msg |-> "function object is not callable"]]
            /\ envStack = ret.entryStack /\ envs = ret.entryEnvs /\ ~aborted

\* inside a running body, a call on a function that is not callable has failed
C4_Witness ==
    /\ ret # None /\ ret.callee = "inert" /\ ret.result.kind = "Err"
    /\ Len(stack) > 0 /\ Top.path = "Ordinary"

\* C5: in the environment an ordinary call starts its body with, for a callee
\* whose first rest parameter is at position k (from 0) and arguments
\* a0..an: every parameter before k is bound to the argument at its position,
\* or to undefined when there is none; the rest parameter is bound to the
\* array of the arguments from position k on, empty when there are none; no
\* parameter declared after it is bound.
C5_RestParameter ==
    \A i \in OrdinaryFrames :
        LET params == ParamsOf(i)
            args == stack[i].args
            b == stack[i].entryEnv.bindings
            k == FirstRest(params)
        IN  k <= Len(params) =>
            /\ \A j \in 1..(k - 1) :
                /\ params[j].name \in DOMAIN b
                /\ b[params[j].name] =
                       Bound(IF j <= Len(args) THEN args[j] ELSE Undefined)
            /\ params[k].name \in DOMAIN b
            /\ b[params[k].name] =
                   Bound([t |-> "array",
                          elems |-> IF k <= Len(args)
                                    THEN [x \in 1..(Len(args) - k + 1) |->
                                              args[x + k - 1]]
                                    ELSE <<>>])
            /\ \A j \in (k + 1)..Len(params) : params[j].name \notin DOMAIN b

\* a function with a rest parameter at position 1 runs with three arguments
\* below a run of the same function with none
C5_Witness ==
    /\ Len(stack) = 2
    /\ stack[1].callee = "frest" /\ Len(stack[1].args) = 0
    /\ stack[2].callee = "frest" /\ Len(stack[2].args) = 3

\* C6: in the environment an ordinary call starts its body with, for a callee
\* with p parameters, none of them rest, and m arguments: parameter i is bound
\* to argument i for i < min(p, m) and to undefined for m <= i < p, and nothing
\* else is bound but "arguments"; the call runs its body whatever m is, and
\* when it has returned a failure, that failure is the one its body produced.
C6_PositionalParameters ==
    /\ \A i \in OrdinaryFrames :
        LET params == ParamsOf(i)
            args == stack[i].args
            b == stack[i].entryEnv.bindings
        IN  RestAt(params) = {} =>
            /\ \A j \in 1..Len(params) :
                /\ params[j].name \in DOMAIN b
                /\ b[params[j].name] =
                       Bound(IF j <= Len(args) THEN args[j] ELSE Undefined)
            /\ DOMAIN b = {params[j].name : j \in 1..Len(params)} \cup {"arguments"}
    /\ (ret # None /\ ret.path = "Ordinary" /\ ret.result.kind = "Err") =>
        ret.produced = ret.result

\* a function of two parameters runs with no argument, and again with three
C6_Witness ==
    /\ Len(stack) = 2
    /\ stack[1].callee = "f2" /\ Len(stack[1].args) = 0
    /\ stack[2].callee = "f2" /\ Len(stack[2].args) = 3

\* C7: every running ordinary call, lexical this mode included, started its
\* body with exactly one binding holding an arguments object: the mutable,
\* initialized binding "arguments", holding an unmapped arguments object
\* whose slots are the actual arguments in call order; and whatever the body
\* has assigned to a parameter since, every slot of the arguments object
\* bound in its environment still reads as the argument it was given.
C7_ArgumentsObject ==
    \A i \in OrdinaryFrames :
        LET args == stack[i].args
            b == stack[i].entryEnv.bindings
            live == envs[stack[i].env]
        IN  /\ "arguments" \in DOMAIN b
            /\ b["arguments"] =
                   Bound([t |-> "arguments", elems |-> args, map |-> <<>>])
            /\ \A n \in DOMAIN b :
                   b[n].value.t = "arguments" => n = "arguments"
            /\ live.bindings["arguments"].initialized
            /\ live.bindings["arguments"].value.t = "arguments"
            /\ Len(live.bindings["arguments"].value.elems) = Len(args)
            /\ \A x \in 1..Len(args) :
                   ArgumentsSlot(live, live.bindings["arguments"].value, x) = args[x]

\* an arrow function without parameters runs with three arguments, and in it
\* a function whose body has assigned to its first parameter
C7_Witness ==
    /\ Len(stack) = 2
    /\ stack[1].callee = "arrow" /\ Len(stack[1].args) = 3
    /\ stack[2].callee = "f2" /\ Len(stack[2].args) = 2
    /\ envs[stack[2].env].bindings["a"].value = Assigned

\* C8: the environment of an ordinary call was made with no this value and
\* binding status Lexical when the callee's this mode is lexical, and with the
\* receiver given to call and binding status Uninitialized otherwise.
C8_ThisBinding ==
    \A i \in OrdinaryFrames :
        LET e == stack[i].entryEnv IN
        IF as_function(objects[stack[i].callee]).this_mode = "Lexical"
        THEN e.this_value = [t |-> "none"] /\ e.status = "Lexical"
        ELSE e.this_value = stack[i].this /\ e.status = "Uninitialized"

\* an arrow function and a non-lexical function both run with an object as
\* receiver
C8_Witness ==
    /\ Len(stack) = 2
    /\ stack[1].callee = "arrow" /\ stack[1].this.t = "object"
    /\ stack[2].callee = "frest" /\ stack[2].this.t = "object"

\* C9: every running ordinary call has made one environment of its own, new
\* when it was made, whose parent is the callee's captured environment; the
\* environment stack is the stack the evaluator started with followed by the
\* environments of the running ordinary calls in call order, so that the
\* running body has its own environment on top; when the call has returned
\* its environment is off the stack and released; and no function's captured
\* environment ever changes.
C9_OneEnvironmentPerCall ==
    /\ \A i \in OrdinaryFrames :
        /\ stack[i].env \notin DOMAIN stack[i].entryEnvs
        /\ stack[i].env \in DOMAIN envs
        /\ envs[stack[i].env].outer =
               as_function(InitObjects[stack[i].callee]).environment
        /\ stack[i].entryEnv.outer =
               as_function(InitObjects[stack[i].callee]).environment
        /\ \A j \in OrdinaryFrames : stack[i].env = stack[j].env => i = j
    /\ DOMAIN envs = DOMAIN InitEnvs \cup {stack[i].env : i \in OrdinaryFrames}
    /\ Len(envStack) = 1 + Cardinality(OrdinaryFrames)
    /\ envStack[1] = GlobalEnv
    /\ \A i \in OrdinaryFrames :
        envStack[1 + Cardinality({j \in OrdinaryFrames : j <= i})] = stack[i].env
    /\ (Len(stack) > 0 /\ Top.path = "Ordinary") =>
        envStack[Len(envStack)] = Top.env
    /\ (ret # None /\ ret.path = "Ordinary") =>
        /\ envStack = ret.entryStack
        /\ DOMAIN envs = DOMAIN ret.entryEnvs
    /\ \A o \in Objs :
        as_function(objects[o]) # None =>
            as_function(objects[o]).environment =
                as_function(InitObjects[o]).environment

\* a closure declared in an inner environment has been called from the body
\* of a function declared in the global one, and has just returned
C9_Witness ==
    /\ ret # None /\ ret.callee = "f2"
    /\ Len(stack) = 1 /\ Top.callee = "frest"
    /\ envStack = <<GlobalEnv, Top.env>>

\* C10: a running call of a built-in function has invoked the host function
\* once, with the receiver and the arguments it was given, and has made no
\* environment;
\* while the host function is the running code the environment stack and the
\* environment records are as they were when the call was made; when the call
\* has returned, it has returned what the host function returned, value or
\* failure, and the environment stack and records are still as they were.
C10_BuiltInCall ==
    /\ \A i \in BuiltInFrames :
        /\ stack[i].host = <<[this |-> stack[i].this, args |-> stack[i].args]>>
        /\ stack[i].env = NoEnv
    /\ (Len(stack) > 0 /\ Top.path = "BuiltIn") =>
        /\ envStack = Top.entryStack
        /\ envs = Top.entryEnvs
    /\ (ret # None /\ ret.path = "BuiltIn") =>
        /\ ret.result = ret.produced
        /\ envStack = ret.entryStack
        /\ envs = ret.entryEnvs

\* a built-in function called from the body of an ordinary function has
\* returned a failure
C10_Witness ==
    /\ ret # None /\ ret.path = "BuiltIn" /\ ret.result.kind = "Err"
    /\ Len(stack) = 1 /\ Top.path = "Ordinary"

\* C11: the result of a call of an ordinary function is the result of running
\* its body: a value is returned as that value and a thrown value as the same
\* thrown value; when the result is returned the environment of the call is
\* no longer on the environment stack, which is the stack the call was made
\* on.
C11_BodyResultReturned ==
    (ret # None /\ ret.path = "Ordinary") =>
        /\ ret.result = ret.produced
        /\ \A k \in 1..Len(envStack) :
              envStack[k] # FreshEnv(DOMAIN ret.entryEnvs)
        /\ envStack = ret.entryStack

\* an ordinary call made from the host has returned the value its body threw
C11_Witness ==
    /\ ret # None /\ ret.path = "Ordinary"
    /\ ret.produced = Err(Num(2)) /\ ret.result = Err(Num(2))
    /\ Len(stack) = 0 /\ envStack = <<GlobalEnv>>

----------------------------------------------------------------------------
(* New::run: the evaluation of `new expr(args)`                            *)
(* (boa/src/exec/new/mod.rs).                                              *)

\* the handle of the object a `new` expression allocates
Fresh == "fresh"

\* what evaluating the callee expression may produce: any object, a value
\* that is no object, or a thrown value
ExprOutcomes ==
    {Ok(ObjectValue(o)) : o \in Objs} \cup {Ok(Undefined), Ok(Num(1)), Err(Num(0))}

\* what evaluating the i-th argument expression produces: its value, or a
\* value it throws
ArgOutcome(i, throws) == IF throws THEN Err(Num(0 - i)) ELSE Ok(Num(i))

\* what the construct behaviour of a function may hand back: the receiver,
\* another object, or a thrown value
ConstructResults ==
    {Ok(ObjectValue(Fresh)), Ok(ObjectValue("plain")), Err(Num(2))}

\* Value::get_field: the value of the property of an object, undefined when
\* the value is no object or has no such property
get_field(value, field) ==
    IF value.t = "object"
       /\ \E k \in 1..Len(objects[value.o].properties) :
              objects[value.o].properties[k].key = field
    THEN LET k == CHOOSE j \in 1..Len(objects[value.o].properties) :
                      objects[value.o].properties[j].key = field
         IN objects[value.o].properties[k].value
    ELSE Undefined

\* Value::new_object(None): a fresh object with no property
new_object == Object(None, <<>>)

\* Object::set_prototype
set_prototype(object, proto) == [object EXCEPT !.prototype = proto]

\* the prototype link taken from the callee only when it is an object
PrototypeIfObject(func_object) ==
    IF get_field(func_object, PROTOTYPE).t = "object"
    THEN get_field(func_object, PROTOTYPE)
    ELSE Null

\* func_object.get_field(PROTOTYPE): the link the new object is given
PrototypeOf(func_object) == get_field(func_object, PROTOTYPE)

\* the push of an argument that lets a thrown value pass as undefined
PushArgThrowIgnored(v_args, outcome) ==
    [thrown |-> FALSE,
     v_args |-> Append(v_args, IF outcome.kind = "Err" THEN Undefined
                                ELSE outcome.value),
     result |-> None]

\* v_args.push(arg.run(interpreter)?)
PushArg(v_args, outcome) ==
    IF outcome.kind = "Err"
    THEN [thrown |-> TRUE, v_args |-> v_args, result |-> outcome]
    ELSE [thrown |-> FALSE, v_args |-> Append(v_args, outcome.value),
          result |-> None]

\* the match that refuses a callee that is no object
NewArmNotAConstructor(func_object) ==
    IF func_object.t = "object"
    THEN [construct |-> TRUE, result |-> None]
    ELSE [construct |-> FALSE, result |-> TypeError("not a constructor")]

\* match func_object: an object is constructed, anything else gives undefined
NewArm(func_object) ==
    IF func_object.t = "object"
    THEN [construct |-> TRUE, result |-> None]
    ELSE [construct |-> FALSE, result |-> Ok(Undefined)]

\* a step of New::run: what was done, and on which argument
Ev(ev, i) == [ev |-> ev, i |-> i]

\* self.expr().run(interpreter)? of a `new` expression with n arguments
EvalExpr(n, outcome) ==
    /\ node.pc = "idle"
    /\ node' = [IdleNode EXCEPT
                    !.nargs = n,
                    !.log = <<Ev("expr", 0)>>,
                    !.outcomes = <<outcome>>,
                    !.pc = IF outcome.kind = "Err" THEN "done" ELSE "args",
                    !.func_object = IF outcome.kind = "Err" THEN None
                                    ELSE outcome.value,
                    !.result = IF outcome.kind = "Err" THEN outcome ELSE None]
    /\ UNCHANGED <<heapVars, callVars, iterVars, handleVars>>
    /\ UNCHANGED otherVars

\* one turn of the loop over self.args()
EvalArg(throws) ==
    /\ node.pc = "args"
    /\ Len(node.v_args) < node.nargs
    /\ LET outcome == ArgOutcome(Len(node.v_args) + 1, throws)
           pushed == PushArg(node.v_args, outcome)
       IN
        node' = [node EXCEPT
                    !.log = Append(@, Ev("arg", Len(node.outcomes))),
                    !.outcomes = Append(@, outcome),
                    !.v_args = pushed.v_args,
                    !.pc = IF pushed.thrown THEN "done" ELSE "args",
                    !.result = pushed.result]
    /\ UNCHANGED <<heapVars, callVars, iterVars, handleVars>>
    /\ UNCHANGED otherVars

\* after the loop: the receiver is allocated and linked, and the callee is
\* matched; construct starts when the callee is an object
NewDispatch ==
    /\ node.pc = "args"
    /\ Len(node.v_args) = node.nargs
    /\ LET arm == NewArm(node.func_object)
           this == ObjectValue(Fresh)
       IN
        node' = [node EXCEPT
            !.this = this,
            !.allocated = set_prototype(new_object, PrototypeOf(node.func_object)),
            !.log = @ \o <<Ev("new_object", 0), Ev("set_prototype", 0)>>
                      \o (IF arm.construct THEN <<Ev("construct", 0)>> ELSE <<>>),
            !.constructs = IF arm.construct
                           THEN <<[callee |-> node.func_object, this |-> this,
                                   args |-> node.v_args]>>
                           ELSE <<>>,
            !.pc = IF arm.construct THEN "construct" ELSE "done",
            !.result = arm.result]
    /\ UNCHANGED <<heapVars, callVars, iterVars, handleVars>>
    /\ UNCHANGED otherVars

\* object.construct(&this, &v_args, interpreter) returns r, which New::run
\* returns
ConstructReturn(r) ==
    /\ node.pc = "construct"
    /\ node' = [node EXCEPT !.returned = r, !.result = r, !.pc = "done"]
    /\ UNCHANGED <<heapVars, callVars, iterVars, handleVars>>
    /\ UNCHANGED otherVars

NextNew ==
    \/ \E n \in 0..MaxArgs, outcome \in ExprOutcomes : EvalExpr(n, outcome)
    \/ \E throws \in BOOLEAN : EvalArg(throws)
    \/ NewDispatch
    \/ \E r \in ConstructResults : ConstructReturn(r)

SpecNew == Init /\ [][NextNew]_vars

\* the steps New::run takes on a `new` expression with n arguments when
\* nothing throws and the callee is an object
FullLog(n) ==
    <<Ev("expr", 0)>> \o [i \in 1..n |-> Ev("arg", i)]
        \o <<Ev("new_object", 0), Ev("set_prototype", 0), Ev("construct", 0)>>

IsPrefix(a, b) == Len(a) <= Len(b) /\ \A k \in 1..Len(a) : a[k] = b[k]

\* construct has been invoked by the evaluation
Constructing == node.pc \in {"construct", "done"} /\ node.constructs # <<>>

\* C12: when the callee of a `new` expression is an object F, the receiver is
\* a fresh object without properties whose prototype link is the value of
\* F's "prototype" property as read, object or not, set before construct is
\* invoked; construct is invoked once, on F, with that receiver and the
\* evaluated arguments; the expression evaluates to what construct returns,
\* the receiver or not.
C12_NewConstructs ==
    /\ Constructing =>
        /\ node.func_object.t = "object"
        /\ node.this = ObjectValue(Fresh)
        /\ node.this.o \notin Objs
        /\ node.allocated.indexed_properties = <<>>
        /\ node.allocated.properties = <<>>
        /\ node.allocated.symbol_properties = <<>>
        /\ node.allocated.prototype = get_field(node.func_object, PROTOTYPE)
        /\ node.constructs = <<[callee |-> node.func_object,
                                this |-> node.this, args |-> node.v_args]>>
        /\ \E i, j \in 1..Len(node.log) :
              /\ i < j
              /\ node.log[i].ev = "set_prototype"
              /\ node.log[j].ev = "construct"
        /\ node.pc = "done" => node.result = node.returned
    /\ (node.pc = "done" /\ node.func_object # None
           /\ node.func_object.t = "object"
           /\ \A k \in 1..Len(node.outcomes) : node.outcomes[k].kind = "Ok")
        => Constructing

\* `new native(1)`, whose "prototype" property is a number, has evaluated to
\* an object other than its receiver
C12_Witness ==
    /\ node.pc = "done"
    /\ node.func_object = ObjectValue("native")
    /\ node.v_args = <<Num(1)>>
    /\ node.allocated # None
    /\ node.allocated.prototype = Num(1)
    /\ node.result = Ok(ObjectValue("plain"))

\* C13: when the callee of a `new` expression evaluates to a value that is no
\* object and no argument throws, every argument has been evaluated, construct
\* is not invoked and the expression evaluates to undefined, not to an error.
C13_NewOfNonObject ==
    (/\ node.pc = "done"
     /\ node.func_object # None
     /\ node.func_object.t # "object"
     /\ \A k \in 1..Len(node.outcomes) : node.outcomes[k].kind = "Ok")
    =>
        /\ node.result = Ok(Undefined)
        /\ node.constructs = <<>>
        /\ node.returned = None
        /\ Len(node.v_args) = node.nargs
        /\ \A i \in 1..node.nargs : node.log[i + 1] = Ev("arg", i)

\* `new 1(a, b)` has evaluated to undefined after evaluating both arguments
C13_Witness ==
    /\ node.pc = "done"
    /\ node.func_object = Num(1)
    /\ node.v_args = <<Num(1), Num(2)>>
    /\ node.result = Ok(Undefined)

\* C14: New::run evaluates the callee first, then the arguments once each from
\* left to right, and only then allocates the receiver and invokes construct;
\* when the callee or an argument throws, nothing is evaluated after it,
\* no receiver is allocated, construct is not invoked and the expression
\* gives the thrown value itself.
C14_NewEvaluationOrder ==
    /\ IsPrefix(node.log, FullLog(node.nargs))
    /\ Len(node.outcomes) <= node.nargs + 1
    /\ \A k \in 1..Len(node.outcomes) :
        /\ node.log[k] = IF k = 1 THEN Ev("expr", 0) ELSE Ev("arg", k - 1)
        /\ node.outcomes[k].kind = "Err" =>
            /\ k = Len(node.outcomes)
            /\ Len(node.log) = k
            /\ node.pc = "done"
            /\ node.result = node.outcomes[k]
            /\ node.allocated = None
            /\ node.constructs = <<>>
    /\ node.allocated # None =>
        /\ Len(node.outcomes) = node.nargs + 1
        /\ \A k \in 1..Len(node.outcomes) : node.outcomes[k].kind = "Ok"
        /\ node.v_args = [i \in 1..node.nargs |-> node.outcomes[i + 1].value]

\* the second of three arguments of `new f2(a, b, c)` has thrown
C14_Witness ==
    /\ node.pc = "done"
    /\ node.func_object = ObjectValue("f2")
    /\ node.nargs = 3
    /\ node.v_args = <<Num(1)>>
    /\ node.result = Err(Num(0 - 2))
    /\ node.constructs = <<>>

----------------------------------------------------------------------------
(* The property namespaces of an Object and the iterators over them        *)
(* (boa/src/builtins/object/iter.rs).                                      *)

\* the object whose properties are iterated
IterObj == "plain"

\* the keys of the three namespaces: u32 indices, strings, symbols
IndexKeys == 0..MaxIndex
StringKeys == {"a", "b"}
SymbolKeys == {"s1", "s2"}

Str(s) == [t |-> "string", s |-> s]

Some(x) == [t |-> "some", v |-> x]

\* a conversion that makes a String key of a symbol
PropertyKeySymbolAsString(ns, k) ==
    IF ns = "indexed_properties" THEN [index |-> k] ELSE [string |-> k]

\* PropertyKey::Index, PropertyKey::String, PropertyKey::Symbol
PropertyKey(ns, k) ==
    CASE ns = "indexed_properties" -> [index |-> k]
      [] ns = "properties"         -> [string |-> k]
      [] ns = "symbol_properties"  -> [symbol |-> k]

\* the property stored under key k of namespace ns
PropertyFor(ns, k) == IF ns = "indexed_properties" THEN Num(k) ELSE Str(k)

\* the keys of a map, in the order the container iterates them
KeySeq(map) == [i \in 1..Len(map) |-> map[i].key]

KeySet(map) == {map[i].key : i \in 1..Len(map)}

\* HashMap::insert of a key the map does not hold: the entry lands where the
\* hash puts it, at position pos of the iteration order
InsertAt(map, entry, pos) ==
    SubSeq(map, 1, pos - 1) \o <<entry>> \o SubSeq(map, pos, Len(map))

\* HashMap::remove
RemoveKey(map, key) ==
    LET keep == {i \in 1..Len(map) : map[i].key # key}
        RECURSIVE From(_)
        From(i) == IF i > Len(map) THEN <<>>
                   ELSE IF i \in keep THEN <<map[i]>> \o From(i + 1)
                   ELSE From(i + 1)
    IN From(1)

\* the three maps of an object
Maps(object) ==
    [indexed_properties |-> object.indexed_properties,
     properties |-> object.properties,
     symbol_properties |-> object.symbol_properties]

\* Object::iter: one hash_map::Iter per namespace, each holding the entries
\* it has still to go through
Iter(object) ==
    [indexed_properties |-> object.indexed_properties,
     string_properties |-> object.properties,
     symbol_properties |-> object.symbol_properties]

\* hash_map::Iter::next
MapNext(rest) ==
    IF rest = <<>> THEN [item |-> None, rest |-> rest]
    ELSE [item |-> Some(rest[1]), rest |-> Tail(rest)]

\* an Iter::next that goes through the string keys before the indices
IterNextStringsFirst(it) ==
    IF MapNext(it.string_properties).item # None
    THEN [item |-> Some(Entry(PropertyKey("properties",
                                           it.string_properties[1].key),
                              it.string_properties[1].value)),
          it |-> [it EXCEPT !.string_properties = Tail(@)]]
    ELSE IF MapNext(it.indexed_properties).item # None
    THEN [item |-> Some(Entry(PropertyKey("indexed_properties",
                                           it.indexed_properties[1].key),
                              it.indexed_properties[1].value)),
          it |-> [it EXCEPT !.indexed_properties = Tail(@)]]
    ELSE IF MapNext(it.symbol_properties).item # None
    THEN [item |-> Some(Entry(PropertyKey("symbol_properties",
                                           it.symbol_properties[1].key),
                              it.symbol_properties[1].value)),
          it |-> [it EXCEPT !.symbol_properties = Tail(@)]]
    ELSE [item |-> None, it |-> it]

\* Iter::next: the indexed map first, then the string map, then the symbol
\* map
IterNext(it) ==
    IF MapNext(it.indexed_properties).item # None
    THEN [item |-> Some(Entry(PropertyKey("indexed_properties",
                                           it.indexed_properties[1].key),
                              it.indexed_properties[1].value)),
          it |-> [it EXCEPT !.indexed_properties = Tail(@)]]
    ELSE IF MapNext(it.string_properties).item # None
    THEN [item |-> Some(Entry(PropertyKey("properties",
                                           it.string_properties[1].key),
                              it.string_properties[1].value)),
          it |-> [it EXCEPT !.string_properties = Tail(@)]]
    ELSE IF MapNext(it.symbol_properties).item # None
    THEN [item |-> Some(Entry(PropertyKey("symbol_properties",
                                           it.symbol_properties[1].key),
                              it.symbol_properties[1].value)),
          it |-> [it EXCEPT !.symbol_properties = Tail(@)]]
    ELSE [item |-> None, it |-> it]

\* a len that counts the indexed map only
IterLenIndexedOnly(it) == Len(it.indexed_properties)

\* Iter::len
IterLen(it) ==
    Len(it.indexed_properties) + Len(it.string_properties)
        + Len(it.symbol_properties)

\* the views over Iter
Views == {"Iter", "Keys", "Values"}

\* Keys::next and Values::next: the key or the value of what Iter::next gives
ViewItem(view, item) ==
    IF item = None THEN None
    ELSE CASE view = "Iter"   -> item
           [] view = "Keys"   -> Some(item.v.key)
           [] view = "Values" -> Some(item.v.value)

\* Keys::len and Values::len: self.0.len()
ViewLen(view, it) == IterLen(it)

NotCalled == [t |-> "not called"]

\* the iterator host code holds: the view it was made as, the Iter inside,
\* the maps as they were when it was made, the entries Iter::next has given
\* so far, and what the latest next() of the view returned
LiveIter(view, object) ==
    [view |-> view, it |-> Iter(object), created |-> Maps(object),
     yielded |-> <<>>, last |-> NotCalled]

\* the attempt of host code to borrow the iterated object mutably
MutAttempt ==
    [op |-> "try_borrow_mut", obj |-> IterObj,
     result |-> try_borrow_mut(flags[IterObj]).result,
     flag |-> flags[IterObj], held |-> guards[IterObj]]

\* host code tries to insert a property under a key the object does not hold:
\* try_borrow_mut, and when it succeeds the insertion and the drop of the guard
InsertProperty(ns, k) ==
    /\ k \notin KeySet(objects[IterObj][ns])
    /\ bres' = MutAttempt
    /\ IF try_borrow_mut(flags[IterObj]).result = "Ok"
       THEN /\ \E pos \in 1..(Len(objects[IterObj][ns]) + 1) :
                objects' = [objects EXCEPT ![IterObj][ns] =
                               InsertAt(@, Entry(k, PropertyFor(ns, k)), pos)]
            /\ inserted' = IF ns = "indexed_properties" THEN inserted
                           ELSE [inserted EXCEPT ![ns] = Append(@, k)]
       ELSE UNCHANGED <<objects, inserted>>
    /\ UNCHANGED <<flags, guards, iter, callVars, newVars, handleVars>>
    /\ UNCHANGED otherVars

\* host code tries to remove a property the object holds
RemoveProperty(ns, k) ==
    /\ k \in KeySet(objects[IterObj][ns])
    /\ bres' = MutAttempt
    /\ IF try_borrow_mut(flags[IterObj]).result = "Ok"
       THEN /\ objects' = [objects EXCEPT ![IterObj][ns] = RemoveKey(@, k)]
            /\ inserted' = IF ns = "indexed_properties" THEN inserted
                           ELSE [inserted EXCEPT ![ns] =
                                    SelectSeq(@, LAMBDA x : x # k)]
       ELSE UNCHANGED <<objects, inserted>>
    /\ UNCHANGED <<flags, guards, iter, callVars, newVars, handleVars>>
    /\ UNCHANGED otherVars

\* object.borrow().iter(), .keys() or .values(): the iterator lives inside the
\* shared guard
IterCreate(view) ==
    /\ iter = None
    /\ borrow(flags[IterObj]).result = "Ok"
    /\ flags' = [flags EXCEPT ![IterObj] = borrow(@).flag]
    /\ guards' = [guards EXCEPT ![IterObj].refs = @ + 1]
    /\ iter' = LiveIter(view, objects[IterObj])
    /\ bres' = None
    /\ UNCHANGED <<objects, inserted, callVars, newVars, handleVars>>
    /\ UNCHANGED otherVars

\* next() on the live iterator
IterAdvance ==
    /\ iter # None
    /\ LET n == IterNext(iter.it) IN
        iter' = [iter EXCEPT
                    !.it = n.it,
                    !.yielded = IF n.item = None THEN @ ELSE Append(@, n.item.v),
                    !.last = ViewItem(iter.view, n.item)]
    /\ bres' = None
    /\ UNCHANGED <<objects, flags, guards, inserted, callVars, newVars,
                   handleVars>>
    /\ UNCHANGED otherVars

\* the iterator and the guard it lives in are dropped
IterDrop ==
    /\ iter # None
    /\ iter' = None
    /\ flags' = [flags EXCEPT ![IterObj] = drop_ref(@)]
    /\ guards' = [guards EXCEPT ![IterObj].refs = @ - 1]
    /\ bres' = None
    /\ UNCHANGED <<objects, inserted, callVars, newVars, handleVars>>
    /\ UNCHANGED otherVars

NextIter ==
    \/ \E k \in IndexKeys : InsertProperty("indexed_properties", k)
    \/ \E k \in StringKeys : InsertProperty("properties", k)
    \/ \E k \in SymbolKeys : InsertProperty("symbol_properties", k)
    \/ \E k \in IndexKeys : RemoveProperty("indexed_properties", k)
    \/ \E k \in StringKeys : RemoveProperty("properties", k)
    \/ \E k \in SymbolKeys : RemoveProperty("symbol_properties", k)
    \/ \E view \in Views : IterCreate(view)
    \/ IterAdvance
    \/ IterDrop

SpecIter == Init /\ [][NextIter]_vars

\* the entries of one map as Iter::next gives them
EntriesOf(ns, map) ==
    [i \in 1..Len(map) |-> Entry(PropertyKey(ns, map[i].key), map[i].value)]

\* the entries of three maps: the indexed ones, then the string ones, then
\* the symbol ones, each map in the order of its container
AllEntries(indexed, string, symbol) ==
    EntriesOf("indexed_properties", indexed)
        \o EntriesOf("properties", string)
        \o EntriesOf("symbol_properties", symbol)

\* the namespace an entry given by Iter::next belongs to: 1, 2 or 3
Rank(e) ==
    IF "index" \in DOMAIN e.key THEN 1
    ELSE IF "string" \in DOMAIN e.key THEN 2 ELSE 3

\* the position of key k in the sequence of keys q
PosIn(q, k) == CHOOSE i \in 1..Len(q) : q[i] = k

\* the live iterator has returned None
Exhausted == iter # None /\ iter.last = None

\* C15: what the combined iterator has given so far, followed by what its
\* three inner iterators still hold, is the indexed entries, then the string
\* entries, then the symbol entries of the object as it was when the iterator
\* was made; no entry is given twice, no entry of an earlier namespace comes
\* after one of a later namespace, and when the iterator has returned None
\* every entry has been given.
C15_NamespaceOrder ==
    iter # None =>
        /\ iter.yielded \o AllEntries(iter.it.indexed_properties,
                                      iter.it.string_properties,
                                      iter.it.symbol_properties)
            = AllEntries(iter.created.indexed_properties,
                         iter.created.properties,
                         iter.created.symbol_properties)
        /\ \A i, j \in 1..Len(iter.yielded) :
            /\ i < j => Rank(iter.yielded[i]) <= Rank(iter.yielded[j])
            /\ i # j => iter.yielded[i] # iter.yielded[j]
        /\ Exhausted =>
            Len(iter.yielded) = Len(iter.created.indexed_properties)
                                + Len(iter.created.properties)
                                + Len(iter.created.symbol_properties)

\* an iterator over two indexed, two string and one symbol property has given
\* all five and returned None
C15_Witness ==
    /\ Exhausted
    /\ iter.view = "Iter"
    /\ Len(iter.created.indexed_properties) = 2
    /\ Len(iter.created.properties) = 2
    /\ Len(iter.created.symbol_properties) = 1
    /\ Len(iter.yielded) = 5

\* C16: the combined iterator gives the indexed entries in ascending order of
\* their keys, and the string entries and the symbol entries in the order
\* their keys were inserted.
C16_OrderWithinNamespace ==
    iter # None =>
        \A i, j \in 1..Len(iter.yielded) :
            (i < j /\ Rank(iter.yielded[i]) = Rank(iter.yielded[j])) =>
                CASE Rank(iter.yielded[i]) = 1 ->
                        iter.yielded[i].key.index < iter.yielded[j].key.index
                  [] Rank(iter.yielded[i]) = 2 ->
                        PosIn(inserted.properties, iter.yielded[i].key.string)
                        < PosIn(inserted.properties, iter.yielded[j].key.string)
                  [] Rank(iter.yielded[i]) = 3 ->
                        PosIn(inserted.symbol_properties,
                              iter.yielded[i].key.symbol)
                        < PosIn(inserted.symbol_properties,
                                iter.yielded[j].key.symbol)

\* C17: the length of the live iterator, whatever view it is, is the number
\* of entries it has still to give: with what it has given it makes the sum
\* of the sizes of the three maps when it was made, so each entry given
\* lowers it by one; it is 0 exactly when the next next() returns None, and
\* once next() has returned None it is 0 and next() returns None again.
C17_ExactLength ==
    iter # None =>
        /\ ViewLen(iter.view, iter.it) + Len(iter.yielded)
            = Len(iter.created.indexed_properties)
              + Len(iter.created.properties)
              + Len(iter.created.symbol_properties)
        /\ ViewLen(iter.view, iter.it) = 0
            <=> ViewItem(iter.view, IterNext(iter.it).item) = None
        /\ iter.last = NotCalled => iter.yielded = <<>>
        /\ Exhausted =>
            /\ ViewLen(iter.view, iter.it) = 0
            /\ ViewItem(iter.view, IterNext(iter.it).item) = None
            /\ IterNext(iter.it).it = iter.it

\* a Keys view over four properties of three namespaces has given two keys
\* and has two to go
C17_Witness ==
    /\ iter # None
    /\ iter.view = "Keys"
    /\ Len(iter.created.indexed_properties) = 1
    /\ Len(iter.created.properties) = 2
    /\ Len(iter.created.symbol_properties) = 1
    /\ Len(iter.yielded) = 2
    /\ ViewLen(iter.view, iter.it) = 2
    /\ iter.last = Some([string |-> iter.created.properties[1].key])

\* C18: while the iterator made under a shared borrow is live, the object is
\* shared-borrowed, try_borrow_mut on it fails and every attempt host code
\* has made to borrow it mutably has failed, so its maps are the ones the
\* iterator was made from; the entries the iterator has given are entries of
\* those maps, and all of them once it has returned None.
C18_NoMutationWhileIterating ==
    iter # None =>
        /\ flags[IterObj].readers >= 1
        /\ ~flags[IterObj].writing
        /\ try_borrow_mut(flags[IterObj]).result = "BorrowMutError"
        /\ bres # None =>
            /\ bres.op = "try_borrow_mut"
            /\ bres.result = "BorrowMutError"
            /\ bres.flag = flags[IterObj]
        /\ Maps(objects[IterObj]) = iter.created
        /\ LET all == AllEntries(objects[IterObj].indexed_properties,
                                 objects[IterObj].properties,
                                 objects[IterObj].symbol_properties)
           IN
            /\ \A i \in 1..Len(iter.yielded) :
                  \E k \in 1..Len(all) : all[k] = iter.yielded[i]
            /\ Exhausted =>
                  \A k \in 1..Len(all) :
                      \E i \in 1..Len(iter.yielded) : all[k] = iter.yielded[i]

\* host code has tried to change the object in the middle of an iteration
\* and was refused
C18_Witness ==
    /\ iter # None
    /\ Len(iter.yielded) = 1
    /\ IterLen(iter.it) = 2
    /\ bres # None
    /\ bres.result = "BorrowMutError"

\* C22: in one pass of the combined iterator, the entries that come out of the
\* indexed container carry Index keys, those out of the string container
\* String keys and those out of the symbol container Symbol keys, each the key
\* the container holds, and no PropertyKey is given twice.
C22_NamespacesDisjoint ==
    iter # None =>
        LET nI == Len(iter.created.indexed_properties)
            nS == Len(iter.created.properties)
        IN
        /\ \A i \in 1..Len(iter.yielded) :
            LET key == iter.yielded[i].key IN
            IF i <= nI
            THEN /\ DOMAIN key = {"index"}
                 /\ key.index = iter.created.indexed_properties[i].key
            ELSE IF i <= nI + nS
            THEN /\ DOMAIN key = {"string"}
                 /\ key.string = iter.created.properties[i - nI].key
            ELSE /\ DOMAIN key = {"symbol"}
                 /\ key.symbol
                      = iter.created.symbol_properties[i - nI - nS].key
        /\ \A i, j \in 1..Len(iter.yielded) :
            iter.yielded[i].key = iter.yielded[j].key => i = j

\* a pass over one indexed, two string and two symbol properties has given
\* all five keys
C22_Witness ==
    /\ Exhausted
    /\ Len(iter.created.indexed_properties) = 1
    /\ Len(iter.created.properties) = 2
    /\ Len(iter.created.symbol_properties) = 2
    /\ Len(iter.yielded) = 5
    /\ iter.yielded[5].key = [symbol |-> iter.created.symbol_properties[2].key]


----------------------------------------------------------------------------
(* The twelve views of an Object run side by side over one shared borrow   *)
(* (iter.rs 5-69, 101-373).                                                *)

EntryViews == {"IndexProperties", "StringProperties", "SymbolProperties"}
KeyViews == {"IndexPropertyKeys", "StringPropertyKeys", "SymbolPropertyKeys"}
ValueViews ==
    {"IndexPropertyValues", "StringPropertyValues", "SymbolPropertyValues"}
NamespaceViews == EntryViews \cup KeyViews \cup ValueViews
AllViews == Views \cup NamespaceViews

\* views in which the symbol views go through the string map
NamespaceOfStringsForSymbols(view) ==
    IF view \in {"IndexProperties", "IndexPropertyKeys", "IndexPropertyValues"}
    THEN "indexed_properties"
    ELSE "properties"

\* the map a per-namespace view goes through
NamespaceOf(view) ==
    CASE view \in {"IndexProperties", "IndexPropertyKeys",
                   "IndexPropertyValues"} -> "indexed_properties"
      [] view \in {"StringProperties", "StringPropertyKeys",
                   "StringPropertyValues"} -> "properties"
      [] view \in {"SymbolProperties", "SymbolPropertyKeys",
                   "SymbolPropertyValues"} -> "symbol_properties"

\* the namespace a PropertyKey selects
NamespaceOfKey(key) ==
    IF "index" \in DOMAIN key THEN "indexed_properties"
    ELSE IF "string" \in DOMAIN key THEN "properties"
    ELSE "symbol_properties"

\* Object::index_properties, ::index_property_keys, ... : the iter(), keys()
\* or values() of the one map, holding the entries it has still to go through
NamespaceIter(view, object) == object[NamespaceOf(view)]

\* next of a per-namespace view: self.0.next(), where self.0 is a
\* hash_map::Iter, hash_map::Keys or hash_map::Values
NamespaceNext(view, rest) ==
    LET n == MapNext(rest) IN
    [item |-> IF n.item = None THEN None
              ELSE IF view \in EntryViews THEN n.item
              ELSE IF view \in KeyViews THEN Some(n.item.v.key)
              ELSE Some(n.item.v.value),
     it |-> n.rest]

\* len of a per-namespace view: self.0.len()
NamespaceLen(view, rest) == Len(rest)

\* the constructor, next and len of any of the twelve views
ViewCreate(view, object) ==
    IF view \in Views THEN Iter(object) ELSE NamespaceIter(view, object)

ViewNext(view, it) ==
    IF view \in Views
    THEN LET n == IterNext(it) IN [item |-> ViewItem(view, n.item), it |-> n.it]
    ELSE NamespaceNext(view, it)

ViewLength(view, it) ==
    IF view \in Views THEN ViewLen(view, it) ELSE NamespaceLen(view, it)

\* host code borrows the object and makes the twelve views of it
ViewsCreate ==
    /\ views = None
    /\ iter = None
    /\ borrow(flags[IterObj]).result = "Ok"
    /\ flags' = [flags EXCEPT ![IterObj] = borrow(@).flag]
    /\ guards' = [guards EXCEPT ![IterObj].refs = @ + 1]
    /\ views' = [its |-> [v \in AllViews |-> ViewCreate(v, objects[IterObj])],
                 yielded |-> [v \in AllViews |-> <<>>],
                 last |-> [v \in AllViews |-> NotCalled],
                 created |-> Maps(objects[IterObj])]
    /\ bres' = None
    /\ UNCHANGED <<objects, iterVars, callVars, newVars, handleVars,
                   symbolVars, lexVars>>

\* host code calls next() on the three combined views, and on the three
\* views of the namespace of the entry the combined iterator has given; when
\* the combined iterator gives None, on all the per-namespace views
ViewsAdvance ==
    /\ views # None
    /\ LET given == IterNext(views.its["Iter"]).item
           turn == IF given = None THEN NamespaceViews
                   ELSE {v \in NamespaceViews :
                            NamespaceOf(v) = NamespaceOfKey(given.v.key)}
           stepped == Views \cup turn
           n == [v \in AllViews |-> ViewNext(v, views.its[v])]
       IN
        views' = [views EXCEPT
            !.its = [v \in AllViews |->
                        IF v \in stepped THEN n[v].it ELSE views.its[v]],
            !.yielded = [v \in AllViews |->
                        IF v \in stepped /\ n[v].item # None
                        THEN Append(views.yielded[v], n[v].item.v)
                        ELSE views.yielded[v]],
            !.last = [v \in AllViews |->
                        IF v \in stepped THEN n[v].item ELSE views.last[v]]]
    /\ bres' = None
    /\ UNCHANGED <<objects, flags, guards, iterVars, callVars, newVars,
                   handleVars, symbolVars, lexVars>>

\* the views and the guard they live in are dropped
ViewsDrop ==
    /\ views # None
    /\ views' = None
    /\ flags' = [flags EXCEPT ![IterObj] = drop_ref(@)]
    /\ guards' = [guards EXCEPT ![IterObj].refs = @ - 1]
    /\ bres' = None
    /\ UNCHANGED <<objects, iterVars, callVars, newVars, handleVars,
                   symbolVars, lexVars>>

NextViews ==
    \/ \E k \in IndexKeys : InsertProperty("indexed_properties", k)
    \/ \E k \in StringKeys : InsertProperty("properties", k)
    \/ \E k \in SymbolKeys : InsertProperty("symbol_properties", k)
    \/ \E k \in IndexKeys : RemoveProperty("indexed_properties", k)
    \/ \E k \in StringKeys : RemoveProperty("properties", k)
    \/ \E k \in SymbolKeys : RemoveProperty("symbol_properties", k)
    \/ ViewsCreate
    \/ ViewsAdvance
    \/ ViewsDrop

SpecViews == Init /\ [][NextViews]_vars

\* the keys and the values of a sequence of entries
KeysOf(entries) == [i \in 1..Len(entries) |-> entries[i].key]
ValuesOf(entries) == [i \in 1..Len(entries) |-> entries[i].value]

\* the entry view of a namespace
EntryViewOf(ns) ==
    CHOOSE v \in EntryViews : NamespaceOf(v) = ns

\* C23: over one unmodified object, keys() has given the keys and values()
\* the values of the entries iter() has given, in the same order; each
\* per-namespace entry view has given the entries of the combined iterator
\* that belong to its namespace, in the same order, and with what it has
\* still to give they are the entries of its own map; the key-only and
\* value-only views of a namespace have the length of its entry view (and
\* have given the keys and the values of its entries); and the lengths of the
\* three per-namespace entry views sum to the length of the combined one.
C23_ViewsAgree ==
    views # None =>
        /\ views.yielded["Keys"] = KeysOf(views.yielded["Iter"])
        /\ views.yielded["Values"] = ValuesOf(views.yielded["Iter"])
        /\ views.last["Iter"] = None
            <=> views.last["Keys"] = None
        /\ views.last["Iter"] = None
            <=> views.last["Values"] = None
        /\ \A e \in EntryViews :
            LET ns == NamespaceOf(e) IN
            /\ EntriesOf(ns, views.yielded[e])
                = SelectSeq(views.yielded["Iter"],
                            LAMBDA x : NamespaceOfKey(x.key) = ns)
            /\ views.yielded[e] \o views.its[e] = views.created[ns]
            /\ \A v \in KeyViews \cup ValueViews :
                NamespaceOf(v) = ns =>
                    /\ ViewLength(v, views.its[v])
                        = ViewLength(e, views.its[e])
                    /\ views.yielded[v]
                        = IF v \in KeyViews THEN KeysOf(views.yielded[e])
                          ELSE ValuesOf(views.yielded[e])
        /\ ViewLength("IndexProperties", views.its["IndexProperties"])
            + ViewLength("StringProperties", views.its["StringProperties"])
            + ViewLength("SymbolProperties", views.its["SymbolProperties"])
            = ViewLength("Iter", views.its["Iter"])
        /\ ViewLength("Keys", views.its["Keys"])
            = ViewLength("Iter", views.its["Iter"])
        /\ ViewLength("Values", views.its["Values"])
            = ViewLength("Iter", views.its["Iter"])

\* the views of an object with two indexed, one string and two symbol
\* properties have all been run to the end
C23_Witness ==
    /\ views # None
    /\ \A v \in AllViews : views.last[v] = None
    /\ Len(views.yielded["Iter"]) = 5
    /\ Len(views.yielded["Keys"]) = 5
    /\ Len(views.yielded["IndexPropertyValues"]) = 2
    /\ Len(views.yielded["StringProperties"]) = 1
    /\ Len(views.yielded["SymbolPropertyKeys"]) = 2

----------------------------------------------------------------------------
(* GcObject handles and GcObject::equals (gcobject.rs 19-27, 49-53).       *)

\* the allocations GcObject::new can make, besides those of the heap at start
NewAllocs == {"second", "third"}

\* a handle is a Gc pointer: as_ref gives the allocation it points to
as_ref(handle) == handle

\* an equality that compares what the two cells hold
equals_by_contents(lhs, rhs) == objects[lhs] = objects[rhs]

\* GcObject::equals: std::ptr::eq(lhs.as_ref(), rhs.as_ref())
equals(lhs, rhs) == as_ref(lhs) = as_ref(rhs)

\* GcObject::new(object) on an object without properties: a new allocation,
\* and the handle on it
NewHandle(a) ==
    /\ Len(handles) < MaxHandles
    /\ a \notin DOMAIN objects
    /\ objects' = [o \in DOMAIN objects \cup {a} |->
                      IF o = a THEN Object(None, <<>>) ELSE objects[o]]
    /\ flags' = [o \in DOMAIN flags \cup {a} |->
                    IF o = a THEN Unused ELSE flags[o]]
    /\ guards' = [o \in DOMAIN guards \cup {a} |->
                     IF o = a THEN NoGuards ELSE guards[o]]
    /\ handles' = Append(handles, a)
    /\ eqres' = None
    /\ UNCHANGED <<bres, callVars, newVars, iterVars>>
    /\ UNCHANGED otherVars

\* GcObject::clone (derived): another handle on the same allocation
CloneHandle(h) ==
    /\ h <= Len(handles)
    /\ Len(handles) < MaxHandles
    /\ handles' = Append(handles, handles[h])
    /\ eqres' = None
    /\ UNCHANGED <<heapVars, callVars, newVars, iterVars>>
    /\ UNCHANGED otherVars

\* host code changes what the cell behind handle h holds: through borrow_mut
\* it sets the string property "a", or removes it when it is set
MutateThrough(h) ==
    /\ h <= Len(handles)
    /\ borrow_mut(flags[handles[h]]).result = "Ok"
    /\ objects' = [objects EXCEPT ![handles[h]].properties =
                      IF "a" \in KeySet(@) THEN RemoveKey(@, "a")
                      ELSE InsertAt(@, Entry("a", PropertyFor("properties", "a")),
                                    1)]
    /\ eqres' = IF eqres = None THEN None ELSE [eqres EXCEPT !.mutated = TRUE]
    /\ UNCHANGED <<flags, guards, bres, handles, callVars, newVars, iterVars>>
    /\ UNCHANGED otherVars

\* GcObject::equals(a, b) on two handles host code holds
Equals(a, b) ==
    /\ a <= Len(handles)
    /\ b <= Len(handles)
    /\ eqres' = [lhs |-> a, rhs |-> b,
                 result |-> equals(handles[a], handles[b]), mutated |-> FALSE]
    /\ UNCHANGED <<heapVars, handles, callVars, newVars, iterVars>>
    /\ UNCHANGED otherVars

NextEq ==
    \/ \E a \in NewAllocs : NewHandle(a)
    \/ \E h \in 1..MaxHandles : CloneHandle(h)
    \/ \E h \in 1..MaxHandles : MutateThrough(h)
    \/ \E a, b \in 1..MaxHandles : Equals(a, b)

SpecEq == Init /\ [][NextEq]_vars

\* C19: GcObject::equals answers true exactly for two handles on the same
\* allocation: a handle equals itself and its clones, handles on separately
\* allocated objects are unequal also when the objects hold the same, and an
\* answer given stays the answer after the contents of the objects were
\* changed.
C19_EqualsIsIdentity ==
    /\ \A a, b \in 1..Len(handles) :
          equals(handles[a], handles[b]) <=> handles[a] = handles[b]
    /\ \A a \in 1..Len(handles) : equals(handles[a], handles[a])
    /\ eqres # None =>
        /\ eqres.result <=> handles[eqres.lhs] = handles[eqres.rhs]
        /\ eqres.result = equals(handles[eqres.lhs], handles[eqres.rhs])

\* a handle that has a clone and a handle on a separate allocation were found
\* unequal, the contents of the objects were changed since, and the two
\* objects hold the same
C19_Witness ==
    /\ eqres # None
    /\ ~eqres.result
    /\ eqres.mutated
    /\ handles[eqres.lhs] # handles[eqres.rhs]
    /\ objects[handles[eqres.lhs]] = objects[handles[eqres.rhs]]
    /\ objects[handles[eqres.lhs]].properties # <<>>
    /\ \E c \in 1..Len(handles) :
          c # eqres.lhs /\ handles[c] = handles[eqres.lhs]

----------------------------------------------------------------------------
(* The borrow GcObject::call holds on the callee while the body runs.      *)

\* the running calls of the function object o
FramesOf(o) == {i \in 1..Len(stack) : stack[i].callee = o}

\* the body of a running call has tried to borrow its function object
BodyAttempt == bres # None /\ "depth" \in DOMAIN bres

\* C20: while bodies run, every function object with a running call is
\* shared-borrowed once per running call of it and not mutably borrowed; the
\* borrow a further call of the running function starts with succeeds, and a
\* try_borrow_mut the running body makes on its function object has returned
\* BorrowMutError and left the borrow flag and the objects as they were.
C20_CalleeSharedWhileRunning ==
    /\ ~aborted =>
        \A o \in Objs :
            FramesOf(o) # {} =>
                /\ ~flags[o].writing
                /\ flags[o].readers = Cardinality(FramesOf(o))
                /\ guards[o].muts = 0
    /\ Running =>
        /\ borrow(flags[Top.callee]).result = "Ok"
        /\ try_borrow_mut(flags[Top.callee]).result = "BorrowMutError"
    /\ BodyAttempt =>
        /\ bres.result = "BorrowMutError"
        /\ flags[bres.obj] = bres.flag
        /\ bres.flag.readers >= 1
        /\ objects = InitObjects

\* f2 runs inside f2, and the inner body was refused the mutable borrow of f2
C20_Witness ==
    /\ Len(stack) = 2
    /\ stack[1].callee = "f2"
    /\ stack[2].callee = "f2"
    /\ flags["f2"].readers = 2
    /\ BodyAttempt
    /\ bres.obj = "f2"
    /\ bres.depth = 2
    /\ bres.result = "BorrowMutError"

----------------------------------------------------------------------------
(* The borrow state of the callee after GcObject::call.                    *)

\* C26: a call that has just ended, whether it returned a value, a thrown
\* value or the TypeError of an object that is no function or not callable,
\* has left the borrow flag of its callee as it was when the call was made;
\* when no other borrow of the callee is outstanding (no call of it is
\* running and host code holds no guard on it), the flag is the unused one
\* and try_borrow_mut on the callee succeeds.
C26_CallRestoresBorrow ==
    ret # None =>
        /\ flags[ret.callee] = ret.entryFlag
        /\ (FramesOf(ret.callee) = {} /\ guards[ret.callee] = NoGuards) =>
            /\ flags[ret.callee] = Unused
            /\ try_borrow_mut(flags[ret.callee]).result = "Ok"

\* the outermost call of f2 has ended with a thrown value, and nothing else
\* borrows f2
C26_Witness ==
    /\ ret # None
    /\ ret.callee = "f2"
    /\ ret.path = "Ordinary"
    /\ ret.result = Err(Num(2))
    /\ stack = <<>>
    /\ guards["f2"] = NoGuards
    /\ try_borrow_mut(flags["f2"]).result = "Ok"

----------------------------------------------------------------------------
(* The Symbol built-in (boa/src/builtins/symbol/mod.rs).                   *)

\* a string value, as the sequence of its characters
StringValue(chars) == [t |-> "string", chars |-> chars]

\* Symbol(Option<RcString>, u32): description and hash
Symbol(description, hash) == [description |-> description, hash |-> hash]

\* Value::symbol
SymbolValue(symbol) == [t |-> "symbol", symbol |-> symbol]

\* the characters of "Symbol." and of "Symbol("
SymbolDot == <<"S", "y", "m", "b", "o", "l", ".">>
SymbolParen == <<"S", "y", "m", "b", "o", "l", "(">>

\* the characters of the names of the well-known symbols

\* the characters of a name of a well-known symbol
NameChars(name) ==
    CASE name = "asyncIterator" ->
            <<"a", "s", "y", "n", "c", "I", "t", "e", "r", "a", "t", "o", "r">>
      [] name = "hasInstance" ->
            <<"h", "a", "s", "I", "n", "s", "t", "a", "n", "c", "e">>
      [] name = "isConcatSpreadable" ->
            <<"i", "s", "C", "o", "n", "c", "a", "t", "S", "p", "r", "e", "a", "d", "a", "b", "l", "e">>
      [] name = "iterator" ->
            <<"i", "t", "e", "r", "a", "t", "o", "r">>
      [] name = "match" ->
            <<"m", "a", "t", "c", "h">>
      [] name = "matchAll" ->
            <<"m", "a", "t", "c", "h", "A", "l", "l">>
      [] name = "replace" ->
            <<"r", "e", "p", "l", "a", "c", "e">>
      [] name = "search" ->
            <<"s", "e", "a", "r", "c", "h">>
      [] name = "species" ->
            <<"s", "p", "e", "c", "i", "e", "s">>
      [] name = "split" ->
            <<"s", "p", "l", "i", "t">>
      [] name = "toPrimitive" ->
            <<"t", "o", "P", "r", "i", "m", "i", "t", "i", "v", "e">>
      [] name = "toStringTag" ->
            <<"t", "o", "S", "t", "r", "i", "n", "g", "T", "a", "g">>
      [] name = "unscopables" ->
            <<"u", "n", "s", "c", "o", "p", "a", "b", "l", "e", "s">>

\* the names of the well-known symbols, in the order Symbol::init creates
\* them
WellKnownNames ==
    <<"asyncIterator",
      "hasInstance",
      "isConcatSpreadable",
      "iterator",
      "match",
      "matchAll",
      "replace",
      "search",
      "species",
      "split",
      "toPrimitive",
      "toStringTag",
      "unscopables">>

\* the hash source of the interpreter: a counter, each call of generate_hash
\* giving a hash it has not given before
generate_hash(count) == [hash |-> count, count |-> count + 1]

\* Object::as_symbol: the symbol the object wraps, if it wraps one
as_symbol(object) ==
    IF object.data # None /\ object.data.t = "symbol"
    THEN Some(object.data.symbol)
    ELSE None

\* the string of a digit
DigitChar(n) == <<"0", "1", "2", "3", "4", "5", "6", "7", "8", "9">>[n + 1]

\* ctx.to_string: the string coercion of a value; it throws for a symbol, and
\* for an object whose own conversion throws (every object of this heap)
ctx_to_string(value) ==
    CASE value.t = "string"    -> Ok(value.chars)
      [] value.t = "number"    -> Ok(<<DigitChar(value.n)>>)
      [] value.t = "undefined" ->
            Ok(<<"u", "n", "d", "e", "f", "i", "n", "e", "d">>)
      [] value.t = "symbol"    ->
            TypeError("can't convert symbol to string")
      [] value.t = "object"    -> Err(Num(2))

\* ctx.construct_type_error("'this' is not a Symbol")
NotASymbol == TypeError("'this' is not a Symbol")

\* this_symbol_value that takes symbol values only
this_symbol_value_of_primitives(value) ==
    IF value.t = "symbol" THEN Ok(value.symbol) ELSE NotASymbol

\* Symbol::this_symbol_value, on an object that can be borrowed
this_symbol_value(value) ==
    CASE value.t = "symbol" -> Ok(value.symbol)
      [] value.t = "object" ->
            IF as_symbol(objects[value.o]) # None
            THEN Ok(as_symbol(objects[value.o]).v)
            ELSE NotASymbol
      [] OTHER -> NotASymbol

\* format!("Symbol({})", description)
FormatSymbol(description) == SymbolParen \o description \o <<")">>

\* Option::unwrap_or
unwrap_or(option, default) == IF option = None THEN default ELSE option.v

\* Symbol::to_string
Symbol_to_string(this) ==
    LET symbol == this_symbol_value(this) IN
    IF symbol.kind = "Err" THEN symbol
    ELSE Ok(StringValue(FormatSymbol(unwrap_or(symbol.value.description, <<>>))))

\* Some(ctx.to_string(value)?): the string as a description, or the failure
SomeOf(r) == IF r.kind = "Err" THEN r ELSE Ok(Some(r.value))

\* a Symbol::call that takes its hash before it coerces the description
Symbol_call_hash_first(args, count) ==
    LET h == generate_hash(count)
        description ==
            IF Len(args) >= 1 /\ args[1] # Undefined
            THEN SomeOf(ctx_to_string(args[1]))
            ELSE Ok(None)
    IN  IF description.kind = "Err"
        THEN [result |-> description, count |-> h.count]
        ELSE [result |-> Ok(SymbolValue(Symbol(description.value, h.hash))),
              count |-> h.count]

\* Symbol::call: the result and the state of the generator after it
Symbol_call(args, count) ==
    LET description ==
            IF Len(args) >= 1 /\ args[1] # Undefined
            THEN SomeOf(ctx_to_string(args[1]))
            ELSE Ok(None)
    IN  IF description.kind = "Err"
        THEN [result |-> description, count |-> count]
        ELSE [result |-> Ok(SymbolValue(Symbol(description.value,
                                               generate_hash(count).hash))),
              count |-> generate_hash(count).count]

\* well-known symbols that share one hash
WellKnownSymbolsOneHash(count) ==
    [symbols |-> [i \in 1..Len(WellKnownNames) |->
                    Symbol(Some(SymbolDot \o NameChars(WellKnownNames[i])),
                           generate_hash(count).hash)],
     count |-> generate_hash(count).count]

\* the well-known symbols Symbol::init makes, one generate_hash each, and the
\* state of the generator after them
WellKnownSymbols(count) ==
    LET RECURSIVE From(_, _)
        From(i, c) ==
            IF i > Len(WellKnownNames) THEN [symbols |-> <<>>, count |-> c]
            ELSE LET rest == From(i + 1, generate_hash(c).count) IN
                 [symbols |->
                    <<Symbol(Some(SymbolDot \o NameChars(WellKnownNames[i])),
                             generate_hash(c).hash)>> \o rest.symbols,
                  count |-> rest.count]
    IN From(1, count)

\* the argument lists Symbol() is called with
SymbolArgs ==
    {<<>>, <<Undefined>>, <<Num(1), Num(2)>>, <<ObjectValue("plain")>>}

\* the handle of the object that wraps a symbol
Wrapper == "wrapper"

\* the receivers Symbol.prototype.toString is called on
Receivers == {"first symbol", "last symbol", "wrapper", "plain", "number",
              "undefined", "string"}

\* the receiver a name stands for
Receiver(name) ==
    CASE name = "first symbol" -> SymbolValue(symbols[1])
      [] name = "last symbol"  -> SymbolValue(symbols[Len(symbols)])
      [] name = "wrapper"      -> ObjectValue(Wrapper)
      [] name = "plain"        -> ObjectValue("plain")
      [] name = "number"       -> Num(1)
      [] name = "undefined"    -> Undefined
      [] name = "string"       -> StringValue(SymbolParen \o <<")">>)

\* the calls of Symbol() made so far that created a symbol
SymbolCalls == Len(symbols) - inits * Len(WellKnownNames)

\* Symbol(args)
SymbolCall(args) ==
    /\ ~aborted
    /\ SymbolCalls < MaxSymbolCalls
    /\ LET r == Symbol_call(args, symbol_count) IN
        /\ symbol_count' = r.count
        /\ symbols' = IF r.result.kind = "Ok"
                      THEN Append(symbols, r.result.value.symbol)
                      ELSE symbols
        /\ sres' = [op |-> "call", args |-> args, result |-> r.result,
                    count |-> symbol_count, created |-> Len(symbols)]
    /\ UNCHANGED <<inits, heapVars, callVars, newVars, iterVars, handleVars,
                   lexVars, viewVars>>

\* Symbol::init: the well-known symbols are made and defined as properties
\* of the Symbol constructor
SymbolInit ==
    /\ ~aborted
    /\ inits < MaxInits
    /\ LET made == WellKnownSymbols(symbol_count) IN
        /\ symbol_count' = made.count
        /\ symbols' = symbols \o made.symbols
        /\ sres' = [op |-> "init",
                    properties |-> [i \in 1..Len(WellKnownNames) |->
                        Entry(WellKnownNames[i], SymbolValue(made.symbols[i]))],
                    count |-> symbol_count, created |-> Len(symbols)]
    /\ inits' = inits + 1
    /\ UNCHANGED <<heapVars, callVars, newVars, iterVars, handleVars, lexVars, viewVars>>

\* an object that wraps the symbol made first is allocated
NewSymbolObject ==
    /\ ~aborted
    /\ symbols # <<>>
    /\ Wrapper \notin DOMAIN objects
    /\ objects' = [o \in DOMAIN objects \cup {Wrapper} |->
                      IF o = Wrapper
                      THEN [Object(None, <<>>) EXCEPT
                                !.data = SymbolValue(symbols[1])]
                      ELSE objects[o]]
    /\ flags' = [o \in DOMAIN flags \cup {Wrapper} |->
                    IF o = Wrapper THEN Unused ELSE flags[o]]
    /\ guards' = [o \in DOMAIN guards \cup {Wrapper} |->
                     IF o = Wrapper THEN NoGuards ELSE guards[o]]
    /\ sres' = None
    /\ UNCHANGED <<bres, symbol_count, symbols, inits, callVars, newVars,
                   iterVars, handleVars, lexVars, viewVars>>

\* Symbol.prototype.toString on a receiver: an object receiver is borrowed
\* while it is looked at, which panics when host code holds it mutably
SymbolToString(name) ==
    /\ ~aborted
    /\ name \in {"first symbol", "last symbol"} => symbols # <<>>
    /\ name = "wrapper" => Wrapper \in DOMAIN objects
    /\ LET this == Receiver(name) IN
        IF this.t = "object" /\ borrow(flags[this.o]).result = "panic"
        THEN /\ aborted' = TRUE
             /\ sres' = None
             /\ UNCHANGED flags
        ELSE /\ sres' = [op |-> "to_string", this |-> this,
                         result |-> Symbol_to_string(this), flags |-> flags]
             /\ flags' = IF this.t = "object"
                         THEN [flags EXCEPT ![this.o] = drop_ref(borrow(@).flag)]
                         ELSE flags
             /\ UNCHANGED aborted
    /\ UNCHANGED <<objects, guards, bres, envs, envStack, stack, ret,
                   symbol_count, symbols, inits, newVars, iterVars,
                   handleVars, lexVars, viewVars>>

\* the Symbol built-in at work, and host code borrowing the object "plain"
NextSymbol ==
    \/ \E args \in SymbolArgs : SymbolCall(args)
    \/ SymbolInit
    \/ NewSymbolObject
    \/ \E name \in Receivers : SymbolToString(name)
    \/ \E op \in {"try_borrow", "try_borrow_mut"} : HostBorrow("plain", op)
    \/ HostDropRef("plain")
    \/ HostDropMut("plain")

SpecSymbol == Init /\ [][NextSymbol]_vars

\* C21: the symbols created so far, by Symbol() and by Symbol::init in any
\* interleaving, carry pairwise different hashes and so are pairwise unequal,
\* also when their descriptions are the same or both absent; the thirteen
\* well-known symbols Symbol::init has just defined are pairwise distinct and
\* are among the symbols created.
C21_SymbolsUnique ==
    /\ \A i, j \in 1..Len(symbols) :
        i # j =>
            /\ symbols[i].hash # symbols[j].hash
            /\ symbols[i] # symbols[j]
            /\ SymbolValue(symbols[i]) # SymbolValue(symbols[j])
    /\ \A i \in 1..Len(symbols) : symbols[i].hash < symbol_count
    /\ (sres # None /\ sres.op = "init") =>
        /\ Len(sres.properties) = 13
        /\ Len(symbols) = sres.created + 13
        /\ \A i \in 1..13 :
            /\ sres.properties[i].value = SymbolValue(symbols[sres.created + i])
            /\ sres.properties[i].value.symbol.description
                = Some(SymbolDot \o NameChars(sres.properties[i].key))
            /\ \A j \in 1..13 :
                i # j => sres.properties[i].value # sres.properties[j].value
    /\ (sres # None /\ sres.op = "call" /\ sres.result.kind = "Ok") =>
        /\ Len(symbols) = sres.created + 1
        /\ sres.result.value = SymbolValue(symbols[Len(symbols)])

\* Symbol() was called twice before and once after Symbol::init, and the
\* first and the last symbol made have no description
C21_Witness ==
    /\ inits = 1
    /\ Len(symbols) = 16
    /\ symbols[1].description = None
    /\ symbols[2].description = Some(<<"1">>)
    /\ symbols[3].description = Some(SymbolDot \o NameChars("asyncIterator"))
    /\ symbols[16].description = None

\* the symbol a receiver of toString stands for, or None
SymbolOfReceiver(this) ==
    IF this.t = "symbol" THEN Some(this.symbol)
    ELSE IF this.t = "object" /\ objects[this.o].data # None
         THEN Some(objects[this.o].data.symbol)
         ELSE None

\* C24: Symbol.prototype.toString that has returned has returned the string
\* "Symbol(" description ")", the description empty when the symbol has
\* none, for a receiver that is a symbol or an object wrapping one, and the
\* TypeError "'this' is not a Symbol" for every other receiver; the borrow
\* flags of all objects are as they were before the call.
C24_SymbolToString ==
    (sres # None /\ sres.op = "to_string") =>
        /\ flags = sres.flags
        /\ IF SymbolOfReceiver(sres.this) = None
           THEN sres.result = [kind |-> "Err",
                               value |-> [t |-> "TypeError",
                                          msg |-> "'this' is not a Symbol"]]
           ELSE IF SymbolOfReceiver(sres.this).v.description = None
           THEN sres.result
                = Ok(StringValue(<<"S", "y", "m", "b", "o", "l", "(", ")">>))
           ELSE sres.result
                = Ok(StringValue(
                    <<"S", "y", "m", "b", "o", "l", "(">>
                    \o SymbolOfReceiver(sres.this).v.description.v
                    \o <<")">>))

\* toString on an object wrapping the symbol with description "1" has
\* returned "Symbol(1)" and left the object unborrowed
C24_Witness ==
    /\ sres # None /\ sres.op = "to_string"
    /\ sres.this = ObjectValue(Wrapper)
    /\ sres.result
        = Ok(StringValue(<<"S", "y", "m", "b", "o", "l", "(", "1", ")">>))
    /\ flags[Wrapper] = Unused

\* C25: Symbol() that has returned: without a first argument, or with
\* undefined as first argument, it has made a symbol without description;
\* with another first argument whose string coercion succeeds, a symbol whose
\* description is that string; when the coercion throws it has returned the
\* thrown value itself, no symbol was made and the generator is in the state
\* it was in.
C25_SymbolDescription ==
    (sres # None /\ sres.op = "call") =>
        IF Len(sres.args) = 0 \/ sres.args[1] = Undefined
        THEN /\ sres.result.kind = "Ok"
             /\ sres.result.value.t = "symbol"
             /\ sres.result.value.symbol.description = None
             /\ Len(symbols) = sres.created + 1
             /\ symbol_count # sres.count
        ELSE IF ctx_to_string(sres.args[1]).kind = "Ok"
        THEN /\ sres.result.kind = "Ok"
             /\ sres.result.value.t = "symbol"
             /\ sres.result.value.symbol.description
                 = Some(ctx_to_string(sres.args[1]).value)
             /\ Len(symbols) = sres.created + 1
             /\ symbol_count # sres.count
        ELSE /\ sres.result = ctx_to_string(sres.args[1])
             /\ Len(symbols) = sres.created
             /\ symbol_count = sres.count

\* Symbol(o), o an object whose string coercion throws, called after two
\* symbols were made, has returned the thrown value
C25_Witness ==
    /\ sres # None /\ sres.op = "call"
    /\ sres.args = <<ObjectValue("plain")>>
    /\ sres.result = Err(Num(2))
    /\ Len(symbols) = 2
    /\ symbol_count = 2

----------------------------------------------------------------------------
(* NumberLiteral::lex (boa/src/syntax/lexer/number.rs).                    *)

\* the longest input the lexer is given, the consumed first digit included
MaxLen == 4

\* the characters of the inputs: decimal digits, letters, and the marks of
\* the decimal point and of the sign of an exponent
DecimalDigits == {"0", "1", "7", "8"}
Letters == {"x", "o", "b", "n", "e"}
LexChars == DecimalDigits \cup Letters \cup {".", "+", "-"}

\* the digits self.init is drawn from
InitChars == {"0", "1"}

I32Max == 2147483647

\* char::to_digit: the value of the character as a digit of the radix
DigitValue ==
    [c \in LexChars |->
        CASE c = "0" -> 0 [] c = "1" -> 1 [] c = "7" -> 7 [] c = "8" -> 8
          [] c = "b" -> 11 [] c = "e" -> 14 [] OTHER -> 36]

to_digit(c, radix) ==
    IF DigitValue[c] < radix THEN Some(DigitValue[c]) ELSE None

is_digit(c, radix) == to_digit(c, radix) # None

is_ascii_alphabetic(c) == c \in Letters

is_ascii_digit(c) == c \in DecimalDigits

\* NumericKind::Rational, ::Integer(base), ::BigInt(base)
KindRational == [k |-> "Rational"]
KindInteger(radix) == [k |-> "Integer", base |-> radix]
KindBigInt(radix) == [k |-> "BigInt", base |-> radix]

\* NumericKind::base
base(kind) == IF kind.k = "Rational" THEN 10 ELSE kind.base

\* a panic: unreachable!() or a failed expect()
Panic(msg) == [kind |-> "panic", msg |-> msg]

\* NumericKind::to_bigint
to_bigint(kind) ==
    IF kind.k = "Rational"
    THEN Panic("can not convert rational number to BigInt")
    ELSE Ok(KindBigInt(kind.base))

\* Error::syntax
SyntaxError(msg) == [t |-> "syntax", msg |-> msg]

\* the cursor is the characters it has still to give
cursor_peek(cursor) ==
    IF cursor = <<>> THEN None ELSE Some(cursor[1])

cursor_next(cursor) ==
    IF cursor = <<>> THEN [item |-> None, cursor |-> cursor]
    ELSE [item |-> Some(cursor[1]), cursor |-> Tail(cursor)]

\* Cursor::next_is_pred with the predicate c.is_digit(radix)
next_is_digit(cursor, radix) ==
    cursor # <<>> /\ is_digit(cursor[1], radix)

\* Cursor::take_until_pred with the predicate c.is_digit(radix): the digits
\* at the head of the cursor go to the buffer
RECURSIVE take_until_pred(_, _, _)
take_until_pred(buf, cursor, radix) ==
    IF next_is_digit(cursor, radix)
    THEN take_until_pred(Append(buf, cursor[1]), Tail(cursor), radix)
    ELSE [buf |-> buf, cursor |-> cursor]

\* the value of a sequence of digits of the radix
RECURSIVE DigitsValue(_, _, _)
DigitsValue(buf, radix, acc) ==
    IF buf = <<>> THEN acc
    ELSE DigitsValue(Tail(buf), radix, acc * radix + DigitValue[buf[1]])

AllDigits(buf, radix) == \A i \in 1..Len(buf) : is_digit(buf[i], radix)

\* i32::from_str_radix on a buffer without sign
i32_from_str_radix(buf, radix) ==
    IF buf = <<>> \/ ~AllDigits(buf, radix) THEN Err("ParseIntError")
    ELSE IF DigitsValue(buf, radix, 0) > I32Max THEN Err("ParseIntError")
    ELSE Ok(DigitsValue(buf, radix, 0))

\* BigInt::from_string_radix: None for a buffer that is no number
from_string_radix(buf, radix) ==
    IF buf = <<>> \/ ~AllDigits(buf, radix) THEN None
    ELSE Some(DigitsValue(buf, radix, 0))

\* an f64, as num * 10^exp10 with num not divisible by 10
RECURSIVE Float(_, _)
Float(num, exp10) ==
    IF num = 0 THEN [num |-> 0, exp10 |-> 0]
    ELSE IF num % 10 = 0 THEN Float(num \div 10, exp10 + 1)
    ELSE [num |-> num, exp10 |-> exp10]

\* the position of the first c in buf, or Len(buf) + 1
RECURSIVE Find(_, _, _)
Find(buf, c, i) ==
    IF i > Len(buf) \/ buf[i] = c THEN i ELSE Find(buf, c, i + 1)

\* f64::from_str on a buffer of digits, '.', 'E' and signs: digits with at
\* most one point among them and a digit on one side of it, then possibly E,
\* a sign and digits
f64_from_str(buf) ==
    LET e == Find(buf, "E", 1)
        mantissa == SubSeq(buf, 1, e - 1)
        p == Find(mantissa, ".", 1)
        int == SubSeq(mantissa, 1, p - 1)
        frac == SubSeq(mantissa, p + 1, Len(mantissa))
        exponent == SubSeq(buf, e + 1, Len(buf))
        signed == exponent # <<>> /\ exponent[1] \in {"+", "-"}
        expDigits == IF signed THEN Tail(exponent) ELSE exponent
        expValue == DigitsValue(expDigits, 10, 0)
    IN
    IF \/ int \o frac = <<>>
       \/ ~AllDigits(int \o frac, 10)
       \/ (e <= Len(buf) /\ (expDigits = <<>> \/ ~AllDigits(expDigits, 10)))
    THEN Err("ParseFloatError")
    ELSE Ok(Float(DigitsValue(int \o frac, 10, 0),
                  (IF signed /\ exponent[1] = "-" THEN 0 - expValue
                   ELSE expValue) - Len(frac)))

RECURSIVE Pow10(_)
Pow10(n) == IF n = 0 THEN 1 ELSE 10 * Pow10(n - 1)

\* `val as i32` gives val back: val is a whole number an i32 holds
IsI32(val) ==
    /\ val.exp10 >= 0
    /\ val.exp10 <= 9
    /\ val.num <= I32Max \div Pow10(val.exp10)

\* Numeric::Integer, Numeric::Rational, Numeric::BigInt
NumericInteger(n) == [numeric |-> "Integer", n |-> n]
NumericRational(val) == [numeric |-> "Rational", val |-> val]
NumericBigInt(n) == [numeric |-> "BigInt", n |-> n]

\* what the part of lex before the digits hands on: the token or the error
\* it returns at once, or the buffer, the kind and the cursor to go on with
Return(result, cursor) ==
    [ret |-> Some(result), buf |-> <<>>, kind |-> KindInteger(10),
     cursor |-> cursor]

Go(buf, kind, cursor) ==
    [ret |-> None, buf |-> buf, kind |-> kind, cursor |-> cursor]

\* a first 0 followed by a digit, lexed in strict mode as in non-strict mode
ZeroThenOtherLenient(ch, buf, cursor, strict) ==
    IF is_digit(ch, 8)
    THEN Go(Append(pop(buf), cursor_next(cursor).item.v), KindInteger(8),
            cursor_next(cursor).cursor)
    ELSE IF is_digit(ch, 10)
    THEN Go(Append(buf, cursor_next(cursor).item.v), KindInteger(10),
            cursor_next(cursor).cursor)
    ELSE Go(buf, KindInteger(10), cursor)

\* lines 170-198: the first 0 is followed by ch, none of x, o, b, n
ZeroThenOther(ch, buf, cursor, strict) ==
    IF is_digit(ch, 8)
    THEN IF strict
         THEN Return(Err(SyntaxError(
                  "Implicit octal literals are not allowed in strict mode.")),
                  cursor)
         ELSE Go(Append(pop(buf), cursor_next(cursor).item.v), KindInteger(8),
                 cursor_next(cursor).cursor)
    ELSE IF is_digit(ch, 10)
    THEN IF strict
         THEN Return(Err(SyntaxError(
                  "Leading 0's are not allowed in strict mode.")), cursor)
         ELSE Go(Append(buf, cursor_next(cursor).item.v), KindInteger(10),
                 cursor_next(cursor).cursor)
    ELSE Go(buf, KindInteger(10), cursor)

\* lines 128-206: the buffer starts as the first digit and the kind as
\* Integer(10); after a first 0 come the radix prefixes, 0n and the legacy
\* forms
Prefix(init, cursor, strict) ==
    LET buf == <<init>>
        c == cursor_peek(cursor)
    IN
    IF init # "0" THEN Go(buf, KindInteger(10), cursor)
    ELSE IF c = None THEN Return(Ok(NumericInteger(0)), cursor)
    ELSE CASE c.v = "x" -> Go(pop(buf), KindInteger(16),
                              cursor_next(cursor).cursor)
           [] c.v = "o" -> Go(pop(buf), KindInteger(8),
                              cursor_next(cursor).cursor)
           [] c.v = "b" -> Go(pop(buf), KindInteger(2),
                              cursor_next(cursor).cursor)
           [] c.v = "n" -> Return(Ok(NumericBigInt(0)),
                                  cursor_next(cursor).cursor)
           [] OTHER -> ZeroThenOther(c.v, buf, cursor, strict)

\* what the parts of lex after the prefix hand on: an error or a panic that
\* ends lex, or the buffer, the kind and the cursor
Fail(err, cursor) ==
    [err |-> Some(err), buf |-> <<>>, kind |-> KindRational,
     cursor |-> cursor]

Pass(buf, kind, cursor) ==
    [err |-> None, buf |-> buf, kind |-> kind, cursor |-> cursor]

\* take_signed_integer: '+' or '-' and a digit, or a digit, and the digits
\* that follow
take_signed_integer(buf, cursor, kind) ==
    LET n == cursor_next(cursor)
        taken == take_until_pred(Append(buf, n.item.v), n.cursor, base(kind))
    IN
    IF n.item = None
    THEN Fail(Err(SyntaxError("Abrupt end: No exponential value found")),
              n.cursor)
    ELSE IF n.item.v \in {"+", "-"}
    THEN IF ~next_is_digit(n.cursor, base(kind))
         THEN Fail(Err(SyntaxError(IF n.item.v = "+"
                                   THEN "No digit found after + symbol"
                                   ELSE "No digit found after - symbol")),
                   n.cursor)
         ELSE Pass(taken.buf, kind, taken.cursor)
    ELSE IF is_digit(n.item.v, base(kind))
    THEN Pass(taken.buf, kind, taken.cursor)
    ELSE Fail(Err([t |-> "syntax",
                   msg |-> "When lexing exponential value found unexpected char: '{}'",
                   c |-> n.item.v]),
              n.cursor)

\* lines 229-251: the decimal point of a base 10 number, the digits after it
\* and the exponent
Fraction(buf, cursor) ==
    LET taken == take_until_pred(Append(buf, "."), Tail(cursor), 10) IN
    IF cursor_peek(taken.cursor) = Some("e")
    THEN take_signed_integer(Append(taken.buf, "E"), Tail(taken.cursor),
                             KindRational)
    ELSE Pass(taken.buf, KindRational, taken.cursor)

\* lines 213-260: what follows the digits: n, a decimal point, an exponent
Suffix(buf, kind, cursor) ==
    LET c == cursor_peek(cursor) IN
    IF c = Some("n")
    THEN IF to_bigint(kind).kind = "panic"
         THEN Fail(to_bigint(kind), Tail(cursor))
         ELSE Pass(buf, to_bigint(kind).value, Tail(cursor))
    ELSE IF c = Some(".")
    THEN IF base(kind) = 10 THEN Fraction(buf, cursor)
         ELSE Pass(buf, kind, cursor)
    ELSE IF c = Some("e")
    THEN take_signed_integer(Append(buf, "E"), Tail(cursor), KindRational)
    ELSE Pass(buf, kind, cursor)

\* the predicate of check_after_numeric_literal
IdentifierStartOrDigit(ch) ==
    is_ascii_alphabetic(ch) \/ ch = "$" \/ ch = "_" \/ is_ascii_digit(ch)

\* check_after_numeric_literal
check_after_numeric_literal(cursor) ==
    IF cursor # <<>> /\ IdentifierStartOrDigit(cursor[1])
    THEN Err(SyntaxError("NumericLiteral token must not be followed by IdentifierStart nor DecimalDigit characters"))
    ELSE Ok(<<>>)

\* lines 264-293: the conversion of the buffer to the number of the token
Convert(buf, kind) ==
    CASE kind.k = "BigInt" ->
            IF from_string_radix(buf, kind.base) = None
            THEN Panic("Could not convert to BigInt")
            ELSE Ok(NumericBigInt(from_string_radix(buf, kind.base).v))
      [] kind.k = "Rational" ->
            IF f64_from_str(buf).kind = "Err"
            THEN Panic("Failed to parse float after checks")
            ELSE IF IsI32(f64_from_str(buf).value)
            THEN Ok(NumericInteger(f64_from_str(buf).value.num
                                   * Pow10(f64_from_str(buf).value.exp10)))
            ELSE Ok(NumericRational(f64_from_str(buf).value))
      [] kind.k = "Integer" ->
            IF i32_from_str_radix(buf, kind.base).kind = "Ok"
            THEN Ok(NumericInteger(i32_from_str_radix(buf, kind.base).value))
            ELSE IF ~AllDigits(buf, kind.base)
            THEN Panic("Couldn't parse digit after already checking validity")
            ELSE Ok(NumericRational(Float(DigitsValue(buf, kind.base, 0), 0)))

\* what lex has done: its result, the characters the cursor has still to
\* give, and the buffer and the kind it handed to the conversion, if it did
Lexed(result, cursor, handed) ==
    [result |-> result, cursor |-> cursor, handed |-> handed]

\* NumberLiteral::lex
lex(init, cursor, strict) ==
    LET p == Prefix(init, cursor, strict)
        d == take_until_pred(p.buf, p.cursor, base(p.kind))
        x == Suffix(d.buf, p.kind, d.cursor)
    IN
    IF p.ret # None THEN Lexed(p.ret.v, p.cursor, None)
    ELSE IF x.err # None THEN Lexed(x.err.v, x.cursor, None)
    ELSE IF check_after_numeric_literal(x.cursor).kind = "Err"
    THEN Lexed(check_after_numeric_literal(x.cursor), x.cursor, None)
    ELSE Lexed(Convert(x.buf, x.kind), x.cursor,
               Some([buf |-> x.buf, kind |-> x.kind]))

\* the lexer is given an input and a mode: a first digit and up to
\* MaxLen - 1 characters after it
InitLex ==
    /\ InitEngine
    /\ \E c \in InitChars, n \in 0..(MaxLen - 1) :
          \E t \in [1..n -> LexChars] : source = <<c>> \o t
    /\ strict_mode \in BOOLEAN
    /\ lexed = None

\* NumberLiteral::new(init, strict_mode).lex(cursor, start_pos), the first
\* character of the input being init and the rest what the cursor gives
Lex ==
    /\ lexed = None
    /\ lexed' = lex(source[1], Tail(source), strict_mode)
    /\ UNCHANGED <<source, strict_mode>>
    /\ UNCHANGED <<heapVars, callVars, newVars, iterVars, handleVars,
                   symbolVars, viewVars>>

NextLex == Lex

SpecLex == InitLex /\ [][NextLex]_vars

\* the digits of the literal after its first 0, in non-strict mode
LegacyDigits == lexed.handed.v.buf

C28_NotFollowedByIdentifierStart ==
    (lexed # None /\ lexed.result.kind = "Ok") =>
        (lexed.cursor = <<>> \/ ~IdentifierStartOrDigit(lexed.cursor[1]))

\* C29: lex has ended with a token or a syntax error and not with a panic,
\* and the buffer it handed to the conversion is not empty and is made of
\* digits of the base of the literal (for a rational: is a number f64::from_str
\* accepts).
C29_NoAssertionFires ==
    lexed # None =>
        /\ lexed.result.kind \in {"Ok", "Err"}
        /\ lexed.handed # None =>
            /\ lexed.handed.v.buf # <<>>
            /\ IF lexed.handed.v.kind.k = "Rational"
               THEN f64_from_str(lexed.handed.v.buf).kind = "Ok"
               ELSE AllDigits(lexed.handed.v.buf, lexed.handed.v.kind.base)

====
